---------------------------- MODULE Spec2Model ----------------------------
(***************************************************************************)
(* PilotAssistant: the attitude pipeline of the Pico firmware (ICM-20948   *)
(* driver, gyro-bias calibration, Madgwick filter, run loop) and the       *)
(* warning evaluation of the Raspberry Pi HUD.                             *)
(*                                                                         *)
(* Numbers.  The C code computes in IEEE single precision.  The model      *)
(* computes in fixed point: a real x is the integer floor(x * Scale), and  *)
(* the one non-finite value the filter can produce (0 * inf after a        *)
(* division by a zero norm) is the value NaN, which every operation        *)
(* propagates as C does.                                                   *)
(***************************************************************************)
EXTENDS Integers, Sequences, FiniteSets, TLC

VARIABLES
    drv,        \* the ICM-20948 driver's statics and the device behind the bus
    drv_out,    \* what the last public driver call returned
    build,      \* which attitude display the firmware was built with
    pc,         \* where the attitude display is: menu, failed, calibrating, running
    ahrs,       \* statics and locals of the attitude display
    last,       \* what the last step of the attitude display did
    session,    \* the sessions entered so far and what the current one has done
    ticks,      \* run-loop iterations taken so far
    hud,        \* statics of the Raspberry Pi HUD
    hud_out,    \* what the HUD last drew and last sent
    pico_out,   \* what the Pico attitude display last drew
    hud_loops,  \* HUD main-loop iterations taken so far
    gyro_offset,\* statics and position of the gyro-offset screen of the Pico
    link,       \* lines the Pico has written that the HUD has not read yet
    menu,       \* statics of the menu HUD and what its last message drew
    rx,         \* the serial input of the HUD: bytes waiting, its line buffer
    pico_menu   \* the MenuState of the Pico menu and what its last call drew

drvVars == <<drv, drv_out>>
sesVars == <<build, pc, ahrs, last, session, ticks>>
hudVars == <<hud, hud_out, pico_out, hud_loops>>
uiVars == <<gyro_offset, link, menu, rx, pico_menu>>

(***************************************************************************)
(* ICM-20948 driver (src/unnamed/part_000) and the register map            *)
(* (src/pico/c/icm20948_sensor.h).  A register is its bank and address.    *)
(***************************************************************************)
BANK_UNINIT == 255                              \* 0xFF
ICM20948_DEVICE_ID == 234                       \* 0xEA
AK09916_DEVICE_ID == 9
ICM20948_REG_BANK_SEL == 127                    \* 0x7F, present in every bank

ICM20948_WHO_AM_I == [bank |-> 0, addr |-> 0]
ICM20948_USER_CTRL == [bank |-> 0, addr |-> 3]
ICM20948_PWR_MGMT_1 == [bank |-> 0, addr |-> 6]
ICM20948_PWR_MGMT_2 == [bank |-> 0, addr |-> 7]
ICM20948_ACCEL_XOUT_H == [bank |-> 0, addr |-> 45]
ICM20948_GYRO_XOUT_H == [bank |-> 0, addr |-> 51]
ICM20948_EXT_SLV_SENS_DATA_00 == [bank |-> 0, addr |-> 59]
ICM20948_GYRO_CONFIG_1 == [bank |-> 2, addr |-> 1]
ICM20948_ACCEL_CONFIG == [bank |-> 2, addr |-> 20]
ICM20948_I2C_MST_CTRL == [bank |-> 3, addr |-> 1]
ICM20948_I2C_SLV0_ADDR == [bank |-> 3, addr |-> 3]
ICM20948_I2C_SLV0_REG == [bank |-> 3, addr |-> 4]
ICM20948_I2C_SLV0_CTRL == [bank |-> 3, addr |-> 5]
ICM20948_I2C_SLV0_DO == [bank |-> 3, addr |-> 6]

\* One entry of the bus history of a driver call.  kind "call_select" marks a
\* call of select_bank (want: the bank asked for, have: the cached bank before,
\* val: the cached bank after); "bank_sel", "write", "read" and "burst" are SPI
\* transactions (want: the bank the register belongs to, have: the bank the
\* device has selected); "delay" is a sleep_ms of val milliseconds.
Ev(kind, want, have, reg, val) ==
    [kind |-> kind, want |-> want, have |-> have, reg |-> reg, val |-> val]

\* The static initialisers of the driver, and the device after power-up.
\* slv0 is what the I2C master of the device is set to fetch into the shadow
\* area EXT_SLV_SENS_DATA, slv0.wia the byte the chip at the AK09916 address
\* answered the fetch of its WIA2 register with; settle is how many ms of the
\* 10 ms the driver gives a slave 0 transfer are still to pass.
SettleMs == 10

DrvInit0 ==
    [current_bank |-> BANK_UNINIT,
     dev_bank |-> 0,
     sleeping |-> TRUE,
     user_ctrl |-> 0,
     slv0 |-> [en |-> FALSE, reg |-> 0, wia |-> 0],
     settle |-> 0,
     bus |-> <<>>]

sleep_ms(d, ms) ==
    [d EXCEPT !.bus = Append(@, Ev("delay", 0, d.dev_bank, 0, ms)),
              !.settle = IF @ > ms THEN @ - ms ELSE 0]

\* select_bank without the cached-bank test: every call writes REG_BANK_SEL.
select_bank_always(d, bank) ==
    [d EXCEPT !.bus = Append(Append(@,
                         Ev("call_select", bank, d.current_bank, ICM20948_REG_BANK_SEL, bank)),
                         Ev("bank_sel", bank, d.dev_bank, ICM20948_REG_BANK_SEL, bank * 16)),
              !.dev_bank = bank,
              !.current_bank = bank]

\* select_bank with the cache updated before the test: no call writes.
select_bank_cache_first(d, bank) ==
    [d EXCEPT !.bus = Append(@, Ev("call_select", bank, d.current_bank, ICM20948_REG_BANK_SEL, bank)),
              !.current_bank = bank]

select_bank(d, bank) ==
    IF bank = d.current_bank
    THEN [d EXCEPT !.bus = Append(@,
              Ev("call_select", bank, d.current_bank, ICM20948_REG_BANK_SEL, d.current_bank))]
    ELSE [d EXCEPT !.bus = Append(Append(@,
                         Ev("call_select", bank, d.current_bank, ICM20948_REG_BANK_SEL, bank)),
                         Ev("bank_sel", bank, d.dev_bank, ICM20948_REG_BANK_SEL, bank * 16)),
              !.dev_bank = bank,
              !.current_bank = bank]

\* What a write does to the device: PWR_MGMT_1 bit 7 resets it (bank 0 selected,
\* asleep, USER_CTRL and the slave 0 set-up cleared), bit 6 is SLEEP; USER_CTRL
\* is stored; I2C_SLV0_REG and bit 7 of I2C_SLV0_CTRL set what slave 0 fetches,
\* and enabling it starts a transfer.
DeviceWrite(d, reg, value) ==
    IF d.dev_bank = 0 /\ reg.addr = ICM20948_PWR_MGMT_1.addr
    THEN IF value >= 128
         THEN [d EXCEPT !.dev_bank = 0, !.sleeping = TRUE, !.user_ctrl = 0,
                        !.slv0 = [en |-> FALSE, reg |-> 0, wia |-> 0], !.settle = 0]
         ELSE [d EXCEPT !.sleeping = ((value \div 64) % 2 = 1)]
    ELSE IF d.dev_bank = 0 /\ reg.addr = ICM20948_USER_CTRL.addr
    THEN [d EXCEPT !.user_ctrl = value]
    ELSE IF d.dev_bank = 3 /\ reg.addr = ICM20948_I2C_SLV0_REG.addr
    THEN [d EXCEPT !.slv0.reg = value]
    ELSE IF d.dev_bank = 3 /\ reg.addr = ICM20948_I2C_SLV0_CTRL.addr
    THEN [d EXCEPT !.slv0.en = (value >= 128), !.settle = IF value >= 128 THEN SettleMs ELSE @]
    ELSE d

write_register(d, reg, value) ==
    DeviceWrite([d EXCEPT !.bus = Append(@, Ev("write", reg.bank, d.dev_bank, reg.addr, value))],
                reg, value)

\* read_register and read_registers: the transaction; the bytes read are the
\* caller's input.
read_register(d, reg) ==
    [d EXCEPT !.bus = Append(@, Ev("read", reg.bank, d.dev_bank, reg.addr, 1))]

read_registers(d, reg, len) ==
    [d EXCEPT !.bus = Append(@, Ev("burst", reg.bank, d.dev_bank, reg.addr, len))]


\* icm20948_init: who_am_i is the byte the WHO_AM_I read returns.
icm20948_init(d0, who_am_i) ==
    LET d1 == sleep_ms(d0, 100)
        d2 == select_bank(d1, 0)
        d3 == sleep_ms(write_register(d2, ICM20948_PWR_MGMT_1, 128), 100)
        d4 == sleep_ms(write_register(d3, ICM20948_PWR_MGMT_1, 1), 10)
        d5 == read_register(select_bank(d4, 0), ICM20948_WHO_AM_I)
        d6 == sleep_ms(write_register(d5, ICM20948_USER_CTRL, 16), 10)
        d7 == select_bank(d6, 2)
        d8 == write_register(d7, ICM20948_GYRO_CONFIG_1, 27)
        d9 == write_register(d8, ICM20948_ACCEL_CONFIG, 27)
        d10 == select_bank(d9, 0)
        d11 == sleep_ms(write_register(d10, ICM20948_PWR_MGMT_2, 0), 100)
    IN  IF who_am_i # ICM20948_DEVICE_ID
        THEN [d |-> d5, ok |-> FALSE]
        ELSE [d |-> d11, ok |-> TRUE]

\* The three sample reads.  args_ok is the NULL check on the out-pointers, the
\* only path on which the driver reports failure; raw is what the burst returns.
icm20948_read_accel(d, args_ok, raw) ==
    IF ~args_ok THEN [d |-> d, ok |-> FALSE, data |-> raw]
    ELSE [d |-> read_registers(select_bank(d, 0), ICM20948_ACCEL_XOUT_H, 6),
          ok |-> TRUE, data |-> raw]

icm20948_read_gyro(d, args_ok, raw) ==
    IF ~args_ok THEN [d |-> d, ok |-> FALSE, data |-> raw]
    ELSE [d |-> read_registers(select_bank(d, 0), ICM20948_GYRO_XOUT_H, 6),
          ok |-> TRUE, data |-> raw]

icm20948_read_accel_gyro(d, args_ok, raw) ==
    IF ~args_ok THEN [d |-> d, ok |-> FALSE, data |-> raw]
    ELSE [d |-> read_registers(select_bank(d, 0), ICM20948_ACCEL_XOUT_H, 12),
          ok |-> TRUE, data |-> raw]

icm20948_sleep(d) == write_register(select_bank(d, 0), ICM20948_PWR_MGMT_1, 64)

icm20948_wake(d) ==
    sleep_ms(write_register(select_bank(d, 0), ICM20948_PWR_MGMT_1, 1), 10)

\* The AK09916 pass-through: the address/register/control triple, the settle
\* delay, and for a read the result fetched from the shadow area in bank 0.
write_ak09916_register(d, reg, value) ==
    LET d1 == select_bank(d, 3)
        d2 == write_register(d1, ICM20948_I2C_SLV0_ADDR, 12)
        d3 == write_register(d2, ICM20948_I2C_SLV0_REG, reg)
        d4 == write_register(d3, ICM20948_I2C_SLV0_DO, value)
        d5 == write_register(d4, ICM20948_I2C_SLV0_CTRL, 129)
    IN  sleep_ms(d5, 10)

read_ak09916_register(d, reg) ==
    LET d1 == select_bank(d, 3)
        d2 == write_register(d1, ICM20948_I2C_SLV0_ADDR, 140)
        d3 == write_register(d2, ICM20948_I2C_SLV0_REG, reg)
        d4 == write_register(d3, ICM20948_I2C_SLV0_CTRL, 129)
        d5 == sleep_ms(d4, 10)
    IN  read_register(select_bank(d5, 0), ICM20948_EXT_SLV_SENS_DATA_00)

\* icm20948_init_magnetometer: who_am_i is the byte the AK09916 answers with.
icm20948_init_magnetometer(d0, who_am_i) ==
    LET d1 == read_register(select_bank(d0, 0), ICM20948_USER_CTRL)
        \* user_ctrl | 0x30
        uc == d0.user_ctrl + (IF (d0.user_ctrl \div 16) % 2 = 1 THEN 0 ELSE 16)
                           + (IF (d0.user_ctrl \div 32) % 2 = 1 THEN 0 ELSE 32)
        d2 == sleep_ms(write_register(d1, ICM20948_USER_CTRL, uc), 10)
        d3 == sleep_ms(write_register(select_bank(d2, 3), ICM20948_I2C_MST_CTRL, 7), 10)
        d4 == read_ak09916_register(d3, 1)
        d5 == sleep_ms(write_ak09916_register(d4, 50, 1), 100)
        d6 == sleep_ms(write_ak09916_register(d5, 49, 8), 10)
        d7 == select_bank(d6, 3)
        d8 == write_register(d7, ICM20948_I2C_SLV0_ADDR, 140)
        d9 == write_register(d8, ICM20948_I2C_SLV0_REG, 16)
        d10 == write_register(d9, ICM20948_I2C_SLV0_CTRL, 136)
    IN  IF who_am_i # AK09916_DEVICE_ID
        THEN [d |-> [d4 EXCEPT !.slv0.wia = who_am_i], ok |-> FALSE]
        ELSE [d |-> [select_bank(d10, 0) EXCEPT !.slv0.wia = who_am_i], ok |-> TRUE]

\* The eight bytes of the shadow area: while slave 0 fetches from ST1 (0x10)
\* they are ST1, the sample raw and ST2, of which st1_drdy and st2_ovf are bit
\* 0 and bit 3; while it fetches the one byte of WIA2 (0x01), as
\* read_ak09916_register leaves it, the first byte is the chip's answer and
\* the rest is zero; with slave 0 off all are zero.
ShadowArea(d, st1_drdy, st2_ovf, raw) ==
    IF d.slv0.en /\ d.slv0.reg = 16
    THEN [drdy |-> st1_drdy, ovf |-> st2_ovf, data |-> raw]
    ELSE IF d.slv0.en /\ d.slv0.reg = 1
    THEN [drdy |-> d.slv0.wia % 2 = 1, ovf |-> FALSE, data |-> <<0, 0, 0>>]
    ELSE [drdy |-> FALSE, ovf |-> FALSE, data |-> <<0, 0, 0>>]

\* icm20948_read_mag: the sample is taken when bit 0 of the first byte is set
\* and bit 3 of the eighth is clear.
icm20948_read_mag(d, st1_drdy, st2_ovf, raw) ==
    LET d1 == read_registers(select_bank(d, 0), ICM20948_EXT_SLV_SENS_DATA_00, 8)
        b == ShadowArea(d, st1_drdy, st2_ovf, raw)
    IN  [d |-> d1, ok |-> b.drdy /\ ~b.ovf, data |-> b.data]


(***************************************************************************)
(* Fixed-point arithmetic standing for the C floats.                       *)
(***************************************************************************)
Scale == 10 ^ 3                 \* one unit is 0.001
NaN == 2 ^ 30                   \* the non-finite value

Abs(x) == IF x < 0 THEN -x ELSE x

\* Integer division rounding to nearest, symmetric about zero.
RDiv(a, b) == IF a >= 0 THEN (2 * a + b) \div (2 * b) ELSE -((2 * (-a) + b) \div (2 * b))

Mul(a, b) == RDiv(a * b, Scale)

RECURSIVE NewtonSqrt(_, _)
NewtonSqrt(n, r) ==
    LET r2 == (r + n \div r) \div 2
    IN  IF r2 >= r THEN r ELSE NewtonSqrt(n, r2)

\* floor(sqrt(n)) for n >= 0.
ISqrt(n) == IF n <= 0 THEN 0 ELSE NewtonSqrt(n, n)

\* Squared norms are summed from the exact products and scaled once, so that
\* a squared norm is zero only when every component is.
SqNorm3(x, y, z) == x * x + y * y + z * z
SqNorm4(a, b, c, d) == a * a + b * b + c * c + d * d

DegToRad(x) == RDiv(x * 349, 20000)         \* x * pi/180

(***************************************************************************)
(* Raw-to-physical conversion (src/unnamed/part_000:195-224, 334-337).     *)
(***************************************************************************)
GYRO_RANGE_250DPS == 0
GYRO_RANGE_500DPS == 1
GYRO_RANGE_1000DPS == 2
GYRO_RANGE_2000DPS == 3
ACCEL_RANGE_2G == 0
ACCEL_RANGE_4G == 1
ACCEL_RANGE_8G == 2
ACCEL_RANGE_16G == 3

icm20948_accel_to_g(raw_value, range) ==
    LET sensitivity == CASE range = ACCEL_RANGE_2G -> 16384
                         [] range = ACCEL_RANGE_4G -> 8192
                         [] range = ACCEL_RANGE_8G -> 4096
                         [] range = ACCEL_RANGE_16G -> 2048
                         [] OTHER -> 8192
    IN  RDiv(raw_value * Scale, sensitivity)

\* The sensitivities are 131, 65.5, 32.8 and 16.4 LSB per deg/s.
icm20948_gyro_to_dps(raw_value, range) ==
    LET sensitivity10 == CASE range = GYRO_RANGE_250DPS -> 1310
                           [] range = GYRO_RANGE_500DPS -> 655
                           [] range = GYRO_RANGE_1000DPS -> 328
                           [] range = GYRO_RANGE_2000DPS -> 164
                           [] OTHER -> 655
    IN  RDiv(raw_value * 10 * Scale, sensitivity10)

icm20948_mag_to_ut(raw_value) == RDiv(raw_value * 15 * Scale, 100)


(***************************************************************************)
(* Madgwick filter.  Two implementations are in the repository:            *)
(*   src/pico/BasicGyro/madgwick.c  madgwick_update_imu/_marg, gyro in     *)
(*       deg/s, used by attitude_indicator_run;                            *)
(*   src/unnamed/part_012:334-650   madgwick_update/_imu, gyro in rad/s,   *)
(*       with degeneracy guards, used by action_test_gyro.                 *)
(* A filter is [q0, q1, q2, q3, beta, inv_sample_freq].                    *)
(***************************************************************************)
MaxAbs3(x, y, z) ==
    LET a == Abs(x)  b == Abs(y)  c == Abs(z)
    IN  IF a >= b /\ a >= c THEN a ELSE IF b >= c THEN b ELSE c

\* The Euclidean norm of a vector, in the vector's own unit.
Norm3(x, y, z) ==
    IF MaxAbs3(x, y, z) < 20000
    THEN ISqrt(SqNorm3(x, y, z))
    ELSE 100 * ISqrt(SqNorm3(RDiv(x, 100), RDiv(y, 100), RDiv(z, 100)))

Norm4(a, b, c, d) == ISqrt(SqNorm4(a, b, c, d))

\* x * recipNorm for recipNorm = 1/n, n # 0.
Normalised(x, n) == RDiv(x * Scale, n)

IsNaNQ(f) == f.q0 = NaN \/ f.q1 = NaN \/ f.q2 = NaN \/ f.q3 = NaN

SetQ(f, a, b, c, d) == [f EXCEPT !.q0 = a, !.q1 = b, !.q2 = c, !.q3 = d]

reset_quaternion(f) == SetQ(f, Scale, 0, 0, 0)

madgwick_init(sample_freq, beta) ==
    [q0 |-> Scale, q1 |-> 0, q2 |-> 0, q3 |-> 0,
     beta |-> beta, inv_sample_freq |-> RDiv(Scale * Scale, sample_freq)]

\* Rate of change of the quaternion from the gyroscope (rad/s).
QDot(f, gx, gy, gz) ==
    <<RDiv(-Mul(f.q1, gx) - Mul(f.q2, gy) - Mul(f.q3, gz), 2),
      RDiv(Mul(f.q0, gx) + Mul(f.q2, gz) - Mul(f.q3, gy), 2),
      RDiv(Mul(f.q0, gy) - Mul(f.q1, gz) + Mul(f.q3, gx), 2),
      RDiv(Mul(f.q0, gz) + Mul(f.q1, gy) - Mul(f.q2, gx), 2)>>

\* The corrective step of the 6-DOF update for a normalised accelerometer vector.
ImuStep(f, ax, ay, az) ==
    LET q0 == f.q0  q1 == f.q1  q2 == f.q2  q3 == f.q3
        q0q0 == Mul(q0, q0)  q1q1 == Mul(q1, q1)
        q2q2 == Mul(q2, q2)  q3q3 == Mul(q3, q3)
    IN  <<Mul(4 * q0, q2q2) + Mul(2 * q2, ax) + Mul(4 * q0, q1q1) - Mul(2 * q1, ay),
          Mul(4 * q1, q3q3) - Mul(2 * q3, ax) + Mul(4 * q0q0, q1) - Mul(2 * q0, ay)
              - 4 * q1 + Mul(8 * q1, q1q1) + Mul(8 * q1, q2q2) + Mul(4 * q1, az),
          Mul(4 * q0q0, q2) + Mul(2 * q0, ax) + Mul(4 * q2, q3q3) - Mul(2 * q3, ay)
              - 4 * q2 + Mul(8 * q2, q1q1) + Mul(8 * q2, q2q2) + Mul(4 * q2, az),
          Mul(4 * q1q1, q3) - Mul(2 * q1, ax) + Mul(4 * q2q2, q3) - Mul(2 * q2, ay)>>

\* qDot -= beta * s / |s|, for a step s of norm sn # 0.
Feedback(f, qd, s, sn) ==
    [i \in 1..4 |-> qd[i] - Mul(f.beta, Normalised(s[i], sn))]

\* q += qDot * inv_sample_freq, not yet normalised.
Integrate(f, qd) ==
    <<f.q0 + Mul(qd[1], f.inv_sample_freq), f.q1 + Mul(qd[2], f.inv_sample_freq),
      f.q2 + Mul(qd[3], f.inv_sample_freq), f.q3 + Mul(qd[4], f.inv_sample_freq)>>

NaNQ(f) == SetQ(f, NaN, NaN, NaN, NaN)

\* BasicGyro: 1/sqrtf of a zero norm is inf and the products 0 * inf are NaN.
NormaliseUnguarded(f, q) ==
    LET n == Norm4(q[1], q[2], q[3], q[4])
    IN  IF n = 0 THEN NaNQ(f)
        ELSE SetQ(f, Normalised(q[1], n), Normalised(q[2], n),
                     Normalised(q[3], n), Normalised(q[4], n))

\* part_012: inv_sqrt returns 0 for a norm that is <= 1e-20 or not finite, and
\* the quaternion is then reset.
NormaliseOrReset(f, q) ==
    LET n == Norm4(q[1], q[2], q[3], q[4])
    IN  IF n = 0 \/ q[1] = NaN THEN reset_quaternion(f)
        ELSE SetQ(f, Normalised(q[1], n), Normalised(q[2], n),
                     Normalised(q[3], n), Normalised(q[4], n))

\* The end of an update of BasicGyro for a corrective step s: feedback,
\* integration, normalisation.  A zero step has a zero norm: 1/sqrtf is inf and
\* the products are NaN.
StepUnguarded(f, qd, s, sn) ==
    IF sn = 0 THEN NaNQ(f)
    ELSE NormaliseUnguarded(f, Integrate(f, Feedback(f, qd, s, sn)))

\* The end of an update of part_012: a step with step_sq <= 1e-12 is left out.
StepGuarded(f, qd, s, sn) ==
    IF sn = 0 THEN NormaliseOrReset(f, Integrate(f, qd))
    ELSE NormaliseOrReset(f, Integrate(f, Feedback(f, qd, s, sn)))

ApplyUnguarded(f, qd, s) == StepUnguarded(f, qd, s, Norm4(s[1], s[2], s[3], s[4]))
ApplyGuarded(f, qd, s) == StepGuarded(f, qd, s, Norm4(s[1], s[2], s[3], s[4]))

ImuStepOf(f, ax, ay, az, an) ==
    ImuStep(f, Normalised(ax, an), Normalised(ay, an), Normalised(az, an))

\* src/pico/BasicGyro/madgwick.c:39-112. Gyro in deg/s.
basicgyro_update_imu(f, gx_dps, gy_dps, gz_dps, ax, ay, az) ==
    IF IsNaNQ(f) THEN f
    ELSE IF ax = 0 /\ ay = 0 /\ az = 0
    THEN NormaliseUnguarded(f, Integrate(f,
             QDot(f, DegToRad(gx_dps), DegToRad(gy_dps), DegToRad(gz_dps))))
    ELSE ApplyUnguarded(f, QDot(f, DegToRad(gx_dps), DegToRad(gy_dps), DegToRad(gz_dps)),
                        ImuStepOf(f, ax, ay, az, Norm3(ax, ay, az)))

\* src/unnamed/part_012:522-606. Gyro in rad/s.  The guards acc_sq > 1e-8 and
\* step_sq > 1e-12 are below the fixed-point resolution: they are "nonzero".
madgwick_update_imu(f, gx, gy, gz, ax, ay, az) ==
    IF IsNaNQ(f) \/ gx = NaN \/ gy = NaN \/ gz = NaN THEN reset_quaternion(f)
    ELSE IF Norm3(ax, ay, az) = 0
    THEN NormaliseOrReset(f, Integrate(f, QDot(f, gx, gy, gz)))
    ELSE ApplyGuarded(f, QDot(f, gx, gy, gz), ImuStepOf(f, ax, ay, az, Norm3(ax, ay, az)))

\* The reference direction of the Earth's magnetic field, <<2bx, 2bz>>
\* (BasicGyro/madgwick.c:172-178, part_012:440-452).
MargFlux(f, mx, my, mz) ==
    LET q0 == f.q0  q1 == f.q1  q2 == f.q2  q3 == f.q3
        hx == Mul(mx, Mul(q0, q0)) - Mul(Mul(2 * q0, my), q3) + Mul(Mul(2 * q0, mz), q2)
              + Mul(mx, Mul(q1, q1)) + Mul(Mul(2 * q1, my), q2) + Mul(Mul(2 * q1, mz), q3)
              - Mul(mx, Mul(q2, q2)) - Mul(mx, Mul(q3, q3))
        hy == Mul(Mul(2 * q0, mx), q3) + Mul(my, Mul(q0, q0)) - Mul(Mul(2 * q0, mz), q1)
              + Mul(Mul(2 * q1, mx), q2) - Mul(my, Mul(q1, q1)) + Mul(my, Mul(q2, q2))
              + Mul(Mul(2 * q2, mz), q3) - Mul(my, Mul(q3, q3))
    IN  <<ISqrt(hx * hx + hy * hy),
          - Mul(Mul(2 * q0, mx), q2) + Mul(Mul(2 * q0, my), q1) + Mul(mz, Mul(q0, q0))
          + Mul(Mul(2 * q1, mx), q3) - Mul(mz, Mul(q1, q1)) + Mul(Mul(2 * q2, my), q3)
          - Mul(mz, Mul(q2, q2)) + Mul(mz, Mul(q3, q3))>>

\* The gradient for the objective-function residuals fa, fb, fc
\* (accelerometer) and m1, m2, m3 (magnetometer).
MargGradient(f, bx2, bz2, fa, fb, fc, m1, m2, m3) ==
    LET q0 == f.q0  q1 == f.q1  q2 == f.q2  q3 == f.q3
    IN  <<- Mul(2 * q2, fa) + Mul(2 * q1, fb) - Mul(Mul(bz2, q2), m1)
             + Mul(- Mul(bx2, q3) + Mul(bz2, q1), m2) + Mul(Mul(bx2, q2), m3),
          Mul(2 * q3, fa) + Mul(2 * q0, fb) - Mul(4 * q1, fc) + Mul(Mul(bz2, q3), m1)
             + Mul(Mul(bx2, q2) + Mul(bz2, q0), m2)
             + Mul(Mul(bx2, q3) - Mul(2 * bz2, q1), m3),
          - Mul(2 * q0, fa) + Mul(2 * q3, fb) - Mul(4 * q2, fc)
             + Mul(- Mul(2 * bx2, q2) - Mul(bz2, q0), m1)
             + Mul(Mul(bx2, q1) + Mul(bz2, q3), m2)
             + Mul(Mul(bx2, q0) - Mul(2 * bz2, q2), m3),
          Mul(2 * q1, fa) + Mul(2 * q2, fb)
             + Mul(- Mul(2 * bx2, q3) + Mul(bz2, q1), m1)
             + Mul(- Mul(bx2, q0) + Mul(bz2, q2), m2) + Mul(Mul(bx2, q1), m3)>>

MargResiduals(f, ax, ay, az, mx, my, mz, bx2, bz2) ==
    LET q0 == f.q0  q1 == f.q1  q2 == f.q2  q3 == f.q3
        h == Scale \div 2
    IN  MargGradient(f, bx2, bz2,
            2 * Mul(q1, q3) - 2 * Mul(q0, q2) - ax,
            2 * Mul(q0, q1) + 2 * Mul(q2, q3) - ay,
            Scale - 2 * Mul(q1, q1) - 2 * Mul(q2, q2) - az,
            Mul(bx2, h - Mul(q2, q2) - Mul(q3, q3)) + Mul(bz2, Mul(q1, q3) - Mul(q0, q2)) - mx,
            Mul(bx2, Mul(q1, q2) - Mul(q0, q3)) + Mul(bz2, Mul(q0, q1) + Mul(q2, q3)) - my,
            Mul(bx2, Mul(q0, q2) + Mul(q1, q3)) + Mul(bz2, h - Mul(q1, q1) - Mul(q2, q2)) - mz)

MargStepFlux(f, ax, ay, az, mx, my, mz, b) ==
    MargResiduals(f, ax, ay, az, mx, my, mz, b[1], b[2])

\* The corrective step of the 9-DOF update for normalised accelerometer and
\* magnetometer vectors (BasicGyro/madgwick.c:150-184, part_012:418-479).
MargStep(f, ax, ay, az, mx, my, mz) ==
    MargStepFlux(f, ax, ay, az, mx, my, mz, MargFlux(f, mx, my, mz))

MargStepOf(f, ax, ay, az, an, mx, my, mz, mn) ==
    MargStep(f, Normalised(ax, an), Normalised(ay, an), Normalised(az, an),
                Normalised(mx, mn), Normalised(my, mn), Normalised(mz, mn))

\* src/pico/BasicGyro/madgwick.c:114-210. Gyro in deg/s.  Nothing guards the
\* magnetometer norm or the step norm.
madgwick_update_marg(f, gx_dps, gy_dps, gz_dps, ax, ay, az, mx, my, mz) ==
    IF IsNaNQ(f) THEN f
    ELSE IF ax = 0 /\ ay = 0 /\ az = 0
    THEN NormaliseUnguarded(f, Integrate(f,
             QDot(f, DegToRad(gx_dps), DegToRad(gy_dps), DegToRad(gz_dps))))
    ELSE IF Norm3(mx, my, mz) = 0 THEN NaNQ(f)
    ELSE ApplyUnguarded(f, QDot(f, DegToRad(gx_dps), DegToRad(gy_dps), DegToRad(gz_dps)),
                        MargStepOf(f, ax, ay, az, Norm3(ax, ay, az),
                                   mx, my, mz, Norm3(mx, my, mz)))

\* src/unnamed/part_012:372-517. Gyro in rad/s.
madgwick_update(f, gx, gy, gz, ax, ay, az, mx, my, mz) ==
    IF mx = 0 /\ my = 0 /\ mz = 0
    THEN madgwick_update_imu(f, gx, gy, gz, ax, ay, az)
    ELSE IF IsNaNQ(f) \/ gx = NaN \/ gy = NaN \/ gz = NaN THEN reset_quaternion(f)
    ELSE IF Norm3(ax, ay, az) = 0 \/ Norm3(mx, my, mz) = 0
    THEN NormaliseOrReset(f, Integrate(f, QDot(f, gx, gy, gz)))
    ELSE ApplyGuarded(f, QDot(f, gx, gy, gz),
                      MargStepOf(f, ax, ay, az, Norm3(ax, ay, az),
                                 mx, my, mz, Norm3(mx, my, mz)))

(***************************************************************************)
(* Attitude projection.  Angles are degrees in units of 1/Scale.  atanf is *)
(* the octant reduction with the quadratic approximation                   *)
(* atan(t) = 45 t + 15.64 t (1 - t) degrees on [0, 1] (error below 0.25).  *)
(***************************************************************************)
AtanUnit(t) == 45 * t + RDiv(1564 * t * (Scale - t), 100 * Scale)

\* atan2f(y, x) in degrees; atan2f(0, 0) is 0 and atan2f(0, x < 0) is 180.
Atan2Deg(y, x) ==
    LET ay == Abs(y)
        ax == Abs(x)
        base == IF ay = 0 /\ ax = 0 THEN 0
                ELSE IF ax >= ay THEN AtanUnit(RDiv(ay * Scale, ax))
                ELSE 90 * Scale - AtanUnit(RDiv(ax * Scale, ay))
        mag == IF x >= 0 THEN base ELSE 180 * Scale - base
    IN  IF y = NaN \/ x = NaN THEN NaN
        ELSE IF y < 0 THEN -mag ELSE mag

\* asinf(s) in degrees for |s| < 1.
AsinDeg(s) == Atan2Deg(s, ISqrt(Scale * Scale - s * s))

\* src/pico/BasicGyro/madgwick.c:212-230: roll, pitch and the negated yaw, in
\* degrees.  A NaN quaternion gives NaN angles (fabsf(NaN) >= 1 is false).
madgwick_get_euler(f) ==
    LET sinr_cosp == 2 * (Mul(f.q0, f.q1) + Mul(f.q2, f.q3))
        cosr_cosp == Scale - 2 * (Mul(f.q1, f.q1) + Mul(f.q2, f.q2))
        sinp == 2 * (Mul(f.q0, f.q2) - Mul(f.q3, f.q1))
        siny_cosp == 2 * (Mul(f.q0, f.q3) + Mul(f.q1, f.q2))
        cosy_cosp == Scale - 2 * (Mul(f.q2, f.q2) + Mul(f.q3, f.q3))
    IN  IF IsNaNQ(f) THEN [roll |-> NaN, pitch |-> NaN, yaw |-> NaN]
        ELSE [roll |-> Atan2Deg(sinr_cosp, cosr_cosp),
              pitch |-> IF Abs(sinp) >= Scale
                        THEN (IF sinp < 0 THEN -90 * Scale ELSE 90 * Scale)
                        ELSE AsinDeg(sinp),
              yaw |-> - Atan2Deg(siny_cosp, cosy_cosp)]

\* src/unnamed/part_012:611-629 with the conversion to degrees of 634-650.
quaternion_to_euler(f) ==
    LET e == madgwick_get_euler(f)
    IN  [roll |-> e.roll, pitch |-> e.pitch,
         yaw |-> IF e.yaw = NaN THEN NaN ELSE - e.yaw]

madgwick_get_roll_deg(f) == quaternion_to_euler(f).roll
madgwick_get_pitch_deg(f) == quaternion_to_euler(f).pitch

\* src/pico/attitude_indicator.c:62-66: both loops are skipped for NaN.
wrap360(deg) == IF deg = NaN THEN NaN ELSE deg % (360 * Scale)

\* src/pico/attitude_indicator.c:68-72: NaN compares false and is returned.
clampf(x, lo, hi) ==
    IF x = NaN THEN NaN ELSE IF x < lo THEN lo ELSE IF x > hi THEN hi ELSE x

\* a * (1 - k) + b * k for k in units of 1/Scale.
Blend(a, b, k) ==
    IF a = NaN \/ b = NaN THEN NaN ELSE RDiv(a * (Scale - k) + b * k, Scale)


(***************************************************************************)
(* The attitude display of the Pico.  Build "A" is attitude_indicator_run  *)
(* (src/pico/attitude_indicator.c) on the BasicGyro filter; build "B" is   *)
(* action_test_gyro (src/unnamed/part_003:432-641) on the part_012 filter. *)
(* Time is in microseconds, dt in units of 1/Scale second.                 *)
(***************************************************************************)
LOOP_HZ == 100
LOOP_US == 10000
UI_SMOOTH == 120                        \* 0.12
MAX_DISPLAY_DEG == 80 * Scale
BETA_A == 150                           \* madgwick_init(&filter, LOOP_HZ, 0.15f)
BETA_B == 100                           \* madgwick_init(&filter, 100.0f, 0.10f)

\* The bounds of the model.
MaxTicks == 3                           \* run-loop iterations explored
MaxSessions == 2                        \* entries into the attitude display
CalWindow == 2                          \* passes of the calibration loop

\* What the environment can present.
WhoAmI == {ICM20948_DEVICE_ID, 0}
MagWhoAmI == {AK09916_DEVICE_ID, 5}    \* the AK09916, or a chip with another id
AccelRaw == {<<0, 0, 8192>>, <<2896, 0, 7660>>}     \* level; banked about 20 degrees
GyroRaw == {<<0, 0, 0>>, <<1310, 0, 0>>, <<32767, 0, 0>>}   \* still; 20 deg/s; full scale
MagRaw == {<<100, 20, -200>>}
CalGyroRaw == {<<66, 0, 0>>, <<-32768, 0, 0>>}      \* 1 deg/s of bias; full scale
CalAccelRaw == <<0, 0, 8192>>
ElapsedA == {4000, 10000, 70000}
ElapsedB == {10000, 250000}

\* The statics at power-up (zero-initialised) and the locals not yet set.
Ahrs0 ==
    [filter |-> [q0 |-> 0, q1 |-> 0, q2 |-> 0, q3 |-> 0, beta |-> 0, inv_sample_freq |-> 0],
     bias |-> <<0, 0, 0>>, abias |-> <<0, 0, 0>>,
     roll |-> 0, pitch |-> 0, heading |-> 0,
     smooth_roll |-> 0, smooth_pitch |-> 0, display_counter |-> 0,
     until_next |-> 0, has_update |-> FALSE, since_update |-> 0,
     cal_i |-> 0, cal_n |-> 0, cal_sum |-> <<0, 0, 0>>, cal_asum |-> <<0, 0, 0>>]

\* What a step did: its kind, the filter updates it ran, whether it read the
\* magnetometer ("ok", "failed", or "none" when it did not), whether it rendered.
Outcome(kind, updates, mag, rendered) ==
    [kind |-> kind, updates |-> updates, mag |-> mag, rendered |-> rendered]

Vec3Add(u, v) == <<u[1] + v[1], u[2] + v[2], u[3] + v[3]>>
Vec3Sub(u, v) == <<u[1] - v[1], u[2] - v[2], u[3] - v[3]>>
Vec3Div(u, n) == <<RDiv(u[1], n), RDiv(u[2], n), RDiv(u[3], n)>>
GyroDps(raw, range) == <<icm20948_gyro_to_dps(raw[1], range), icm20948_gyro_to_dps(raw[2], range),
                         icm20948_gyro_to_dps(raw[3], range)>>
AccelG(raw, range) == <<icm20948_accel_to_g(raw[1], range), icm20948_accel_to_g(raw[2], range),
                        icm20948_accel_to_g(raw[3], range)>>

\* setup of build A without the calibration: a plausible slip.
setup_no_calibration(a, d0, who_am_i, mag_who_am_i) ==
    LET i == icm20948_init(d0, who_am_i)
        m == icm20948_init_magnetometer(i.d, mag_who_am_i)
    IN  IF ~i.ok THEN [a |-> a, d |-> i.d, ok |-> FALSE, mag |-> FALSE, pc |-> "failed"]
        ELSE [a |-> [a EXCEPT !.filter = madgwick_init(LOOP_HZ * Scale, BETA_A),
                              !.until_next = 0, !.has_update = FALSE, !.since_update = 0],
              d |-> m.d, ok |-> TRUE, mag |-> m.ok, pc |-> "running"]

\* setup of build A going on after a failed icm20948_init: a plausible slip.
setup_ignore_init(a, d0, who_am_i, mag_who_am_i) ==
    LET i == icm20948_init(d0, who_am_i)
        m == icm20948_init_magnetometer(i.d, mag_who_am_i)
    IN  [a |-> [a EXCEPT !.filter = madgwick_init(LOOP_HZ * Scale, BETA_A),
                         !.cal_i = 0, !.cal_n = 0, !.cal_sum = <<0, 0, 0>>],
         d |-> m.d, ok |-> i.ok, mag |-> m.ok, pc |-> "calibrating"]

\* src/pico/attitude_indicator.c:122-151 up to the call of calibrate_gyro_bias:
\* a failed icm20948_init ends in the endless sleep loop, a failed magnetometer
\* init only warns.
setup(a, d0, who_am_i, mag_who_am_i) ==
    LET i == icm20948_init(d0, who_am_i)
        m == icm20948_init_magnetometer(i.d, mag_who_am_i)
    IN  IF ~i.ok THEN [a |-> a, d |-> i.d, ok |-> FALSE, mag |-> FALSE, pc |-> "failed"]
        ELSE [a |-> [a EXCEPT !.filter = madgwick_init(LOOP_HZ * Scale, BETA_A),
                              !.cal_i = 0, !.cal_n = 0, !.cal_sum = <<0, 0, 0>>],
              d |-> m.d, ok |-> TRUE, mag |-> m.ok, pc |-> "calibrating"]

\* src/unnamed/part_003:432-467: a failed icm20948_init shows the error screen
\* and waits for KEY2; otherwise the locals are set up for the calibration.
action_test_gyro_entry(a, d0, who_am_i) ==
    LET i == icm20948_init(d0, who_am_i)
    IN  IF ~i.ok THEN [a |-> a, d |-> i.d, ok |-> FALSE, mag |-> FALSE, pc |-> "failed"]
        ELSE [a |-> [a EXCEPT !.filter = madgwick_init(100 * Scale, BETA_B),
                              !.bias = <<0, 0, 0>>, !.abias = <<0, 0, 0>>,
                              !.cal_i = 0, !.cal_n = 0,
                              !.cal_sum = <<0, 0, 0>>, !.cal_asum = <<0, 0, 0>>],
              d |-> i.d, ok |-> TRUE, mag |-> FALSE, pc |-> "calibrating"]

\* One pass of the loop of calibrate_gyro_bias (attitude_indicator.c:98-109).
calibrate_gyro_bias_sample(a, d, ok, raw) ==
    LET r == icm20948_read_gyro(d, ok, raw)
    IN  [a |-> IF r.ok
               THEN [a EXCEPT !.cal_sum = Vec3Add(@, GyroDps(r.data, GYRO_RANGE_500DPS)),
                              !.cal_n = @ + 1, !.cal_i = @ + 1]
               ELSE [a EXCEPT !.cal_i = @ + 1],
         d |-> sleep_ms(r.d, 5)]

\* The end of calibrate_gyro_bias (attitude_indicator.c:111-118) and the
\* locals of attitude_indicator_run (282-284).
calibrate_gyro_bias_end(a) ==
    [a EXCEPT !.bias = IF a.cal_n > 0 THEN Vec3Div(a.cal_sum, a.cal_n) ELSE @,
              !.until_next = 0, !.has_update = FALSE, !.since_update = 0]

\* One pass of the calibration loop of action_test_gyro (part_003:469-481).
\* The code keeps no count of the samples it read; cal_n observes it.
action_test_gyro_cal_sample(a, d, gok, graw, aok, araw) ==
    LET g == icm20948_read_gyro(d, gok, graw)
        c == icm20948_read_accel(g.d, aok, araw)
    IN  [a |-> [a EXCEPT !.cal_sum = IF g.ok THEN Vec3Add(@, GyroDps(g.data, GYRO_RANGE_500DPS))
                                     ELSE @,
                         !.cal_asum = IF c.ok THEN Vec3Add(@, AccelG(c.data, ACCEL_RANGE_4G))
                                      ELSE @,
                         !.cal_n = IF g.ok THEN @ + 1 ELSE @,
                         !.cal_i = @ + 1],
         d |-> sleep_ms(c.d, 10)]

\* The end of that calibration (part_003:483-499): the sums are divided by the
\* number of passes, gravity is removed from Z, last_update is now.
action_test_gyro_cal_end(a) ==
    LET m == Vec3Div(a.cal_asum, CalWindow)
    IN  [a EXCEPT !.bias = Vec3Div(a.cal_sum, CalWindow),
                  !.abias = <<m[1], m[2], m[3] - Scale>>,
                  !.since_update = 0]


\* The filter update of a tick of build A that skips the update when the
\* magnetometer has nothing: a plausible slip.
filter_update_mag_only(f, g, acc, m) ==
    IF m.ok
    THEN [f |-> madgwick_update_marg(f, g[1], g[2], g[3], acc[1], acc[2], acc[3],
                                     icm20948_mag_to_ut(m.data[2]),
                                     icm20948_mag_to_ut(m.data[1]),
                                     icm20948_mag_to_ut(m.data[3])),
          updates |-> <<"marg">>, mag |-> "ok"]
    ELSE [f |-> f, updates |-> <<>>, mag |-> "failed"]

\* src/pico/attitude_indicator.c:336-359: the MARG update with the X and Y
\* axes of the magnetometer swapped when icm20948_read_mag succeeded (m.ok),
\* the IMU-only update otherwise.
filter_update(f, g, acc, m) ==
    IF m.ok
    THEN [f |-> madgwick_update_marg(f, g[1], g[2], g[3], acc[1], acc[2], acc[3],
                                     icm20948_mag_to_ut(m.data[2]),
                                     icm20948_mag_to_ut(m.data[1]),
                                     icm20948_mag_to_ut(m.data[3])),
          updates |-> <<"marg">>, mag |-> "ok"]
    ELSE [f |-> basicgyro_update_imu(f, g[1], g[2], g[3], acc[1], acc[2], acc[3]),
          updates |-> <<"imu">>, mag |-> "failed"]

\* src/pico/attitude_indicator.c:369-389: Euler angles of the updated filter
\* u.f, heading, UI smoothing, clamping, and the render on every 2nd tick.
project_and_render(a, d, u) ==
    LET e == madgwick_get_euler(u.f)
        render == a.display_counter + 1 >= 2
    IN  [a |-> [a EXCEPT !.filter = u.f, !.roll = e.roll, !.pitch = e.pitch,
                         !.heading = wrap360(e.yaw),
                         !.smooth_roll = clampf(Blend(@, e.roll, UI_SMOOTH),
                                                -MAX_DISPLAY_DEG, MAX_DISPLAY_DEG),
                         !.smooth_pitch = clampf(Blend(@, e.pitch, UI_SMOOTH),
                                                 -MAX_DISPLAY_DEG, MAX_DISPLAY_DEG),
                         !.display_counter = IF render THEN 0 ELSE @ + 1],
         d |-> d, pc |-> "running", last |-> Outcome("update", u.updates, u.mag, render)]

\* src/pico/attitude_indicator.c:323-367: a tick of build A from the conversion
\* of a sample that was read to the filter update.  in.st1, in.st2 and in.mag
\* are what the magnetometer read finds.
process_sample(a, d, dt, in) ==
    LET acc == AccelG(in.accel, ACCEL_RANGE_4G)
        g == Vec3Sub(GyroDps(in.gyro, GYRO_RANGE_500DPS), a.bias)
        anorm2 == Mul(acc[1], acc[1]) + Mul(acc[2], acc[2]) + Mul(acc[3], acc[3])
        accel_valid == anorm2 > 800 /\ anorm2 < 1200
        m == icm20948_read_mag(d, in.st1, in.st2, in.mag)
    IN  project_and_render(a, m.d,
            filter_update([a.filter EXCEPT !.inv_sample_freq = dt], g,
                          IF accel_valid THEN acc ELSE <<0, 0, 0>>, m))

\* The dt of a tick of build A (attitude_indicator.c:309-315).
measured_dt(a, elapsed) ==
    IF ~a.has_update THEN RDiv(Scale, LOOP_HZ)
    ELSE LET m == RDiv(a.since_update + elapsed, 1000)
         IN  IF m < 1 THEN 1 ELSE IF m > 50 THEN 50 ELSE m

\* The loop body of build A going on with the sample after a failed read: a
\* plausible slip.
attitude_indicator_loop_unchecked(a, d, in) ==
    IF in.key2 THEN [a |-> a, d |-> d, pc |-> "menu", last |-> Outcome("exit", <<>>, "none", FALSE)]
    ELSE IF a.until_next - in.elapsed > 0
    THEN [a |-> [a EXCEPT !.until_next = @ - in.elapsed, !.since_update = @ + in.elapsed],
          d |-> d, pc |-> "running", last |-> Outcome("wait", <<>>, "none", FALSE)]
    ELSE LET a1 == [a EXCEPT !.until_next = LOOP_US, !.has_update = TRUE, !.since_update = 0]
             r == icm20948_read_accel_gyro(d, in.ok, <<in.accel, in.gyro>>)
             p == process_sample(a1, r.d, measured_dt(a, in.elapsed), in)
         IN  IF ~r.ok THEN [p EXCEPT !.last = Outcome("read_fail", p.last.updates, p.last.mag, p.last.rendered)]
             ELSE p

\* src/pico/attitude_indicator.c:290-321: one pass of the while loop of
\* attitude_indicator_run.  in.key2 is "KEY2 was just pressed", in.elapsed the
\* time since the previous pass, in.ok what icm20948_read_accel_gyro reports.
attitude_indicator_loop(a, d, in) ==
    IF in.key2 THEN [a |-> a, d |-> d, pc |-> "menu", last |-> Outcome("exit", <<>>, "none", FALSE)]
    ELSE IF a.until_next - in.elapsed > 0
    THEN [a |-> [a EXCEPT !.until_next = @ - in.elapsed, !.since_update = @ + in.elapsed],
          d |-> d, pc |-> "running", last |-> Outcome("wait", <<>>, "none", FALSE)]
    ELSE LET a1 == [a EXCEPT !.until_next = LOOP_US, !.has_update = TRUE, !.since_update = 0]
             r == icm20948_read_accel_gyro(d, in.ok, <<in.accel, in.gyro>>)
         IN  IF ~r.ok
             THEN [a |-> a1, d |-> r.d, pc |-> "running",
                   last |-> Outcome("read_fail", <<>>, "none", FALSE)]
             ELSE process_sample(a1, r.d, measured_dt(a, in.elapsed), in)


\* The trim with the sign of the correction reversed: b - alpha (raw - b).
trim_bias_reversed(b, raw, dt) ==
    LET alpha == IF 8 * dt > 2000 THEN 2000 ELSE 8 * dt
    IN  <<b[1] - RDiv(alpha * (raw[1] - b[1]), 100000),
          b[2] - RDiv(alpha * (raw[2] - b[2]), 100000),
          b[3] - RDiv(alpha * (raw[3] - b[3]), 100000)>>

\* The stationary trim of the gyro bias (part_003:542-559): b + alpha (raw - b)
\* with alpha = min(0.08 dt, 0.02), alpha in units of 1e-5.
trim_bias(b, raw, dt) ==
    LET alpha == IF 8 * dt > 2000 THEN 2000 ELSE 8 * dt
    IN  <<b[1] + RDiv(alpha * (raw[1] - b[1]), 100000),
          b[2] + RDiv(alpha * (raw[2] - b[2]), 100000),
          b[3] + RDiv(alpha * (raw[3] - b[3]), 100000)>>

\* src/unnamed/part_003:573-579 and 581-640: the angles of the updated filter
\* f; a non-finite angle re-initialises the filter and skips the frame.
action_test_gyro_render(a, d, b, f, r, pitch) ==
    IF r = NaN \/ pitch = NaN
    THEN [a |-> [a EXCEPT !.bias = b, !.filter = madgwick_init(100 * Scale, BETA_B)],
          d |-> d, pc |-> "running", last |-> Outcome("reinit", <<"imu">>, "none", FALSE)]
    ELSE [a |-> [a EXCEPT !.bias = b, !.filter = f, !.roll = -r,
                          !.pitch = clampf(pitch, -60 * Scale, 60 * Scale)],
          d |-> d, pc |-> "running", last |-> Outcome("update", <<"imu">>, "none", TRUE)]

action_test_gyro_project(a, d, b, f) ==
    action_test_gyro_render(a, d, b, f, madgwick_get_roll_deg(f), madgwick_get_pitch_deg(f))

\* src/unnamed/part_003:561-571: the rates against the trimmed bias b, the
\* dead band on the yaw rate, degrees to radians, the IMU update with this dt.
action_test_gyro_update(a, d, dt, acc, raw, b) ==
    LET g1 == Vec3Sub(raw, b)
        gz == IF Abs(g1[3]) < 150 THEN 0 ELSE g1[3]
    IN  action_test_gyro_project(a, d, b,
            madgwick_update_imu([a.filter EXCEPT !.inv_sample_freq = dt],
                                DegToRad(g1[1]), DegToRad(g1[2]), DegToRad(gz),
                                acc[1], acc[2], acc[3]))

\* src/unnamed/part_003:515-521: the time step of a tick of build B, in ms; a
\* measured step that is not positive or is above 0.2 s is replaced by 10 ms.
action_test_gyro_dt(a, in) ==
    LET dt_us == a.since_update + in.elapsed
    IN  IF dt_us <= 0 \/ dt_us > 200000 THEN 10 ELSE RDiv(dt_us, 1000)

\* src/unnamed/part_003:543-548: the sample of a tick is stationary when the
\* corrected acceleration is within 0.08 g of 1 g and every rate, less the
\* bias, is below 1.2 deg/s.
stationary(a, in) ==
    LET acc == Vec3Sub(AccelG(in.accel, ACCEL_RANGE_4G), a.abias)
        g0 == Vec3Sub(GyroDps(in.gyro, GYRO_RANGE_500DPS), a.bias)
    IN  Abs(Norm3(acc[1], acc[2], acc[3]) - Scale) < 80 /\ Abs(g0[1]) < 1200
        /\ Abs(g0[2]) < 1200 /\ Abs(g0[3]) < 1200

\* The bias estimate trimmed on every sample, stationary or not: a plausible
\* slip.
action_test_gyro_bias_always(a, in) ==
    trim_bias(a.bias, GyroDps(in.gyro, GYRO_RANGE_500DPS), action_test_gyro_dt(a, in))

\* src/unnamed/part_003:542-555: the bias estimate after the sample of a tick,
\* trimmed when the sample is stationary.
action_test_gyro_bias(a, in) ==
    IF stationary(a, in)
    THEN trim_bias(a.bias, GyroDps(in.gyro, GYRO_RANGE_500DPS), action_test_gyro_dt(a, in))
    ELSE a.bias

\* src/unnamed/part_003:515-559: a tick of build B after both reads succeeded,
\* up to the stationary trim of the bias.
action_test_gyro_sample(a, d, in) ==
    LET dt == action_test_gyro_dt(a, in)
        acc == Vec3Sub(AccelG(in.accel, ACCEL_RANGE_4G), a.abias)
        raw == GyroDps(in.gyro, GYRO_RANGE_500DPS)
        g0 == Vec3Sub(raw, a.bias)
    IN  IF Abs(g0[1]) > 2000 * Scale \/ Abs(g0[2]) > 2000 * Scale \/ Abs(g0[3]) > 2000 * Scale
        THEN [a |-> [a EXCEPT !.since_update = 0], d |-> d, pc |-> "running",
              last |-> Outcome("gated", <<>>, "none", FALSE)]
        ELSE action_test_gyro_update([a EXCEPT !.since_update = 0], d, dt, acc, raw,
                 action_test_gyro_bias(a, in))

\* The loop of action_test_gyro with the reads moved before the poll of KEY2.
action_test_gyro_loop_read_first(a, d, in) ==
    LET ra == icm20948_read_accel(d, in.aok, in.accel)
        rg == icm20948_read_gyro(ra.d, in.gok, in.gyro)
    IN  IF in.key2
        THEN [a |-> a, d |-> icm20948_sleep(rg.d), pc |-> "menu",
              last |-> Outcome("exit", <<>>, "none", FALSE)]
        ELSE IF ~ra.ok \/ ~rg.ok
        THEN [a |-> [a EXCEPT !.since_update = @ + in.elapsed], d |-> rg.d, pc |-> "running",
              last |-> Outcome("read_fail", <<>>, "none", FALSE)]
        ELSE action_test_gyro_sample(a, rg.d, in)

\* src/unnamed/part_003:502-513: one pass of the while loop of
\* action_test_gyro.  The gyro is read only if the accelerometer read succeeded.
action_test_gyro_loop(a, d, in) ==
    IF in.key2
    THEN [a |-> a, d |-> icm20948_sleep(d), pc |-> "menu",
          last |-> Outcome("exit", <<>>, "none", FALSE)]
    ELSE LET ra == icm20948_read_accel(d, in.aok, in.accel)
             rg == icm20948_read_gyro(ra.d, in.gok, in.gyro)
             a1 == [a EXCEPT !.since_update = @ + in.elapsed]
         IN  IF ~ra.ok
             THEN [a |-> a1, d |-> ra.d, pc |-> "running",
                   last |-> Outcome("read_fail", <<>>, "none", FALSE)]
             ELSE IF ~rg.ok
             THEN [a |-> a1, d |-> rg.d, pc |-> "running",
                   last |-> Outcome("read_fail", <<>>, "none", FALSE)]
             ELSE action_test_gyro_sample(a, rg.d, in)

(***************************************************************************)
(* The attitude display as a state machine.                                *)
(***************************************************************************)
NoBus(d) == [d EXCEPT !.bus = <<>>]
DrvOut0 == [op |-> "none", ok |-> TRUE, data |-> <<>>, ready |-> FALSE, calls |-> 0]

SesInit ==
    /\ build \in {"A", "B"}
    /\ pc = "menu"
    /\ ahrs = Ahrs0
    /\ last = Outcome("none", <<>>, "none", FALSE)
    /\ session = [n |-> 0, who_am_i |-> 0, init_ok |-> FALSE, mag_ok |-> FALSE,
                 cal_done |-> FALSE, steps |-> 0]
    /\ ticks = 0

\* The menu starts the attitude display; r is what the entry code returns
\* (r.mag: icm20948_init_magnetometer was called and returned true).
Entered(r, who) ==
    /\ ahrs' = r.a
    /\ drv' = r.d
    /\ pc' = r.pc
    /\ session' = [n |-> session.n + 1, who_am_i |-> who, init_ok |-> r.ok,
                   mag_ok |-> r.mag, cal_done |-> FALSE, steps |-> 0]
    /\ last' = Outcome(IF r.ok THEN "enter" ELSE "enter_failed", <<>>, "none", FALSE)

Enter ==
    /\ pc = "menu"
    /\ session.n < MaxSessions
    /\ \E who \in WhoAmI, mwho \in MagWhoAmI :
          /\ build = "B" => mwho = AK09916_DEVICE_ID
          /\ Entered(IF build = "A" THEN setup(ahrs, NoBus(drv), who, mwho)
                     ELSE action_test_gyro_entry(ahrs, NoBus(drv), who), who)
    /\ UNCHANGED <<build, ticks, drv_out, hudVars, uiVars>>

\* After a failed init: build A sleeps for ever, build B polls KEY2 and returns.
FailWait ==
    /\ pc = "failed"
    /\ \E key2 \in BOOLEAN :
          /\ build = "A" => ~key2
          /\ pc' = IF key2 THEN "menu" ELSE "failed"
          /\ drv' = IF key2 THEN NoBus(drv)
                    ELSE sleep_ms(NoBus(drv), IF build = "A" THEN 1000 ELSE 50)
          /\ last' = Outcome(IF key2 THEN "back" ELSE "fail_wait", <<>>, "none", FALSE)
    /\ UNCHANGED <<build, ahrs, session, ticks, drv_out, hudVars, uiVars>>

Sampled(r) == ahrs' = r.a /\ drv' = r.d

CalSample ==
    /\ pc = "calibrating"
    /\ ahrs.cal_i < CalWindow
    /\ \E gok \in BOOLEAN, aok \in BOOLEAN, graw \in CalGyroRaw :
          /\ build = "A" => aok
          /\ Sampled(IF build = "A"
                     THEN calibrate_gyro_bias_sample(ahrs, NoBus(drv), gok, graw)
                     ELSE action_test_gyro_cal_sample(ahrs, NoBus(drv), gok, graw,
                                                      aok, CalAccelRaw))
    /\ session' = [session EXCEPT !.steps = @ + 1]
    /\ last' = Outcome("cal", <<>>, "none", FALSE)
    /\ UNCHANGED <<build, pc, ticks, drv_out, hudVars, uiVars>>

CalEnd ==
    /\ pc = "calibrating"
    /\ ahrs.cal_i = CalWindow
    /\ ahrs' = IF build = "A" THEN calibrate_gyro_bias_end(ahrs)
               ELSE action_test_gyro_cal_end(ahrs)
    /\ pc' = "running"
    /\ session' = [session EXCEPT !.cal_done = TRUE]
    /\ last' = Outcome("cal_end", <<>>, "none", FALSE)
    /\ UNCHANGED <<build, drv, ticks, drv_out, hudVars, uiVars>>


\* What one pass of the run loop can meet: KEY2, the time since the previous
\* pass, the result of the reads and the sample.
SamplesRaw ==
    {[accel |-> <<0, 0, 8192>>, gyro |-> <<0, 0, 0>>],
     [accel |-> <<2896, 0, 7660>>, gyro |-> <<0, 0, 0>>],
     [accel |-> <<0, 0, 8192>>, gyro |-> <<32767, 0, 0>>]}
MagStatus == {[st1 |-> TRUE, st2 |-> FALSE], [st1 |-> FALSE, st2 |-> FALSE]}

InA(key2, elapsed, ok, s, ms, mag) ==
    [key2 |-> key2, elapsed |-> elapsed, ok |-> ok, accel |-> s.accel, gyro |-> s.gyro,
     st1 |-> ms.st1, st2 |-> ms.st2, mag |-> mag]
InB(key2, elapsed, aok, gok, s) ==
    [key2 |-> key2, elapsed |-> elapsed, aok |-> aok, gok |-> gok,
     accel |-> s.accel, gyro |-> s.gyro]
Sample0 == [accel |-> <<0, 0, 8192>>, gyro |-> <<0, 0, 0>>]
Mag0 == <<100, 20, -200>>
MagOk == [st1 |-> TRUE, st2 |-> FALSE]

InputsA ==
    {InA(TRUE, 10000, TRUE, Sample0, MagOk, Mag0)}
    \cup {InA(FALSE, e, FALSE, Sample0, MagOk, Mag0) : e \in ElapsedA}
    \cup {InA(FALSE, x[1], TRUE, x[2], x[3], x[4]) :
             x \in ElapsedA \X SamplesRaw \X MagStatus \X MagRaw}
InputsB ==
    {InB(TRUE, 10000, TRUE, TRUE, Sample0)}
    \cup {InB(FALSE, e, FALSE, TRUE, Sample0) : e \in ElapsedB}
    \cup {InB(FALSE, e, TRUE, FALSE, Sample0) : e \in ElapsedB}
    \cup {InB(FALSE, x[1], TRUE, TRUE, x[2]) : x \in ElapsedB \X SamplesRaw}

Looped(r) == ahrs' = r.a /\ drv' = r.d /\ pc' = r.pc /\ last' = r.last

RunLoop ==
    /\ pc = "running"
    /\ ticks < MaxTicks
    /\ \E in \in (IF build = "A" THEN InputsA ELSE InputsB) :
          Looped(IF build = "A" THEN attitude_indicator_loop(ahrs, NoBus(drv), in)
                 ELSE action_test_gyro_loop(ahrs, NoBus(drv), in))
    /\ ticks' = ticks + 1
    /\ session' = [session EXCEPT !.steps = @ + 1]
    /\ UNCHANGED <<build, drv_out, hudVars, uiVars>>

vars == <<drv, drv_out, build, pc, ahrs, last, session, ticks, hud, hud_out, pico_out, hud_loops,
          gyro_offset, link, menu, rx, pico_menu>>

SesIdle ==
    /\ build = "A"
    /\ pc = "menu"
    /\ ahrs = Ahrs0
    /\ last = Outcome("none", <<>>, "none", FALSE)
    /\ session = [n |-> 0, who_am_i |-> 0, init_ok |-> FALSE, mag_ok |-> FALSE,
                 cal_done |-> FALSE, steps |-> 0]
    /\ ticks = 0

(***************************************************************************)
(* Envelope warnings: the Raspberry Pi HUD (src/unnamed/part_010) and the   *)
(* Pico attitude display (src/pico/attitude_indicator.c:154-275).  Angles   *)
(* are degrees and speeds knots, in units of 1/Scale.                       *)
(***************************************************************************)
FILTER_ALPHA == 950                     \* 0.95
INTERPOLATION_FACTOR == 300             \* 0.3

MaxHudLoops == 2                        \* HUD and Pico display steps explored

\* What the environment can present: <<pitch, roll>> computed from the
\* accelerometer, and the GPS speed.
AttitudeReadings ==
    {<<19 * Scale, 25 * Scale>>, <<21 * Scale, -25 * Scale>>,
     <<20 * Scale, 20 * Scale>>, <<-21 * Scale, 31 * Scale>>}
SpeedReadings == {80 * Scale, 85 * Scale, 100 * Scale}
PicoRolls == {0, 20 * Scale, 25 * Scale, -25 * Scale}

\* The pitch warning without fabs: a plausible slip.
pitch_warning_signed(pitch) == pitch > 20 * Scale

\* part_010:440 and 630.
pitch_warning(pitch) == Abs(pitch) > 20 * Scale

\* The bank limit with the cutoff speed on the high side: a plausible slip.
bank_limit_below(speed_knots) == IF speed_knots < 85 * Scale THEN 20 * Scale ELSE 30 * Scale

\* part_010:467 and 628.
bank_limit(speed_knots) == IF speed_knots <= 85 * Scale THEN 20 * Scale ELSE 30 * Scale

\* part_010:469 and 629.
bank_warning(roll, speed_knots) == Abs(roll) > bank_limit(speed_knots)

\* src/pico/attitude_indicator.c:258-259: the Pico has no speed, the limit is fixed.
pico_bank_warning(roll) == Abs(roll) > 20 * Scale

Hud0 ==
    [attitude |-> [pitch |-> 0, roll |-> 0],
     display_attitude |-> [pitch |-> 0, roll |-> 0],
     filtered_attitude |-> [pitch |-> 0, roll |-> 0],
     filter_initialized |-> FALSE,
     speed_knots |-> 0,
     pitch_offset |-> 0, roll_offset |-> 0,
     serial_connected |-> TRUE,
     running |-> TRUE]

NoneShown == [drawn |-> FALSE, pitch |-> 0, roll |-> 0, speed_knots |-> 0,
              pitch_warning |-> FALSE, bank_warning |-> FALSE]
\* sensor is what the low-pass filter of update_attitude_from_sensor holds when
\* it is fed the readings without the offsets: the sensor-derived attitude.
HudOut0 ==
    [drew |-> FALSE, sent_now |-> FALSE, shown |-> NoneShown, sent |-> NoneShown,
     sensor |-> [initialized |-> FALSE, pitch |-> 0, roll |-> 0]]

\* part_010:504-542; ok is whether mpu6050_read_accel succeeded, raw the
\* <<pitch, roll>> that mpu6050_calculate_attitude gives.
update_attitude_from_sensor(h, ok, raw) ==
    LET raw_pitch == raw[1] + h.pitch_offset
        raw_roll == raw[2] + h.roll_offset
        fp == IF h.filter_initialized
              THEN RDiv(FILTER_ALPHA * raw_pitch
                        + (Scale - FILTER_ALPHA) * h.filtered_attitude.pitch, Scale)
              ELSE raw_pitch
        fr == IF h.filter_initialized
              THEN RDiv(FILTER_ALPHA * raw_roll
                        + (Scale - FILTER_ALPHA) * h.filtered_attitude.roll, Scale)
              ELSE raw_roll
    IN  IF ~ok THEN h
        ELSE [h EXCEPT !.filtered_attitude = [pitch |-> fp, roll |-> fr],
                       !.filter_initialized = TRUE,
                       !.attitude = [pitch |-> fp, roll |-> fr]]

\* part_010:411-498: the display attitude is moved towards the attitude; the
\* warnings are evaluated on the attitude itself.
draw_attitude_indicator(h) ==
    [h |-> [h EXCEPT !.display_attitude =
                [pitch |-> @.pitch + RDiv((h.attitude.pitch - @.pitch) * INTERPOLATION_FACTOR, Scale),
                 roll |-> @.roll + RDiv((h.attitude.roll - @.roll) * INTERPOLATION_FACTOR, Scale)]],
     shown |-> [drawn |-> TRUE, pitch |-> h.attitude.pitch, roll |-> h.attitude.roll,
                speed_knots |-> h.speed_knots,
                pitch_warning |-> pitch_warning(h.attitude.pitch),
                bank_warning |-> bank_warning(h.attitude.roll, h.speed_knots)]]

\* part_010:620-660: the "warnings" object of the telemetry line.
send_telemetry_to_pico(h) ==
    [drawn |-> TRUE, pitch |-> h.attitude.pitch, roll |-> h.attitude.roll,
     speed_knots |-> h.speed_knots,
     pitch_warning |-> pitch_warning(h.attitude.pitch),
     bank_warning |-> bank_warning(h.attitude.roll, h.speed_knots)]

\* src/pico/attitude_indicator.c:154-275: what the Pico shows for a roll; speed
\* is the speed the aircraft has at that moment, which the Pico does not know.
pico_draw_attitude_indicator(roll, speed) ==
    [drawn |-> TRUE, pitch |-> 0, roll |-> roll, speed_knots |-> speed,
     pitch_warning |-> FALSE, bank_warning |-> pico_bank_warning(roll)]

hud_after_draw(d, o, send) ==
    [h |-> d.h,
     o |-> [o EXCEPT !.drew = TRUE, !.sent_now = send, !.shown = d.shown,
                     !.sent = IF send THEN send_telemetry_to_pico(d.h) ELSE @]]

\* A line of the serial link is the sequence of its characters.
DigitVal ==
    [c \in {"0", "1", "2", "3", "4", "5", "6", "7", "8", "9"} |->
        CASE c = "0" -> 0 [] c = "1" -> 1 [] c = "2" -> 2 [] c = "3" -> 3 [] c = "4" -> 4
          [] c = "5" -> 5 [] c = "6" -> 6 [] c = "7" -> 7 [] c = "8" -> 8 [] c = "9" -> 9]

RECURSIVE atoi_digits(_, _, _)
atoi_digits(s, i, acc) ==
    IF i > Len(s) \/ s[i] \notin DOMAIN DigitVal THEN acc
    ELSE atoi_digits(s, i + 1, acc * 10 + DigitVal[s[i]])

\* atoi of the C library: an optional sign, then the digits up to the first
\* character that is none; 0 when there is no digit.
atoi(s) ==
    IF s # <<>> /\ s[1] = "-" THEN 0 - atoi_digits(s, 2, 0)
    ELSE IF s # <<>> /\ s[1] = "+" THEN atoi_digits(s, 2, 0)
    ELSE atoi_digits(s, 1, 0)

\* strncmp(s, p, strlen(p)) == 0
StartsWith(s, p) == Len(s) >= Len(p) /\ SubSeq(s, 1, Len(p)) = p

\* The characters of s from position i on (s + i - 1 in the C code).
From(s, i) == SubSeq(s, i, Len(s))

\* strstr: the first position at which p occurs in s, 0 when it does not.
strstr(s, p) ==
    LET at == {i \in 1..Len(s) : StartsWith(From(s, i), p)}
    IN  IF at = {} THEN 0 ELSE CHOOSE i \in at : \A j \in at : i <= j

\* part_010:582-614: an offset command replaces the offset with the number it
\* carries; the offsets are in degrees.
parse_cmd_message(h, message) ==
    LET cmd == From(message, 5)
    IN  IF ~StartsWith(message, <<"C", "M", "D", ":">>) THEN h
        ELSE IF StartsWith(cmd, <<"O", "F", "F", "S", "E", "T", ":", "P", "I", "T", "C", "H", ":">>)
        THEN [h EXCEPT !.pitch_offset = atoi(From(cmd, 14)) * Scale]
        ELSE IF StartsWith(cmd, <<"O", "F", "F", "S", "E", "T", ":", "R", "O", "L", "L", ":">>)
        THEN [h EXCEPT !.roll_offset = atoi(From(cmd, 13)) * Scale]
        ELSE h

\* part_010:549-576: the name of the button of a press message, <<>> for any
\* other line.
parse_button_press(message) ==
    LET end == strstr(message, <<":", "P", "R", "E", "S", "S", "E", "D">>)
        name_len == end - 5
    IN  IF ~StartsWith(message, <<"B", "T", "N", ":">>) THEN <<>>
        ELSE IF end = 0 THEN <<>>
        ELSE IF name_len <= 0 \/ name_len >= 32 THEN <<>>
        ELSE SubSeq(message, 5, 4 + name_len)

\* part_010:665-710: line is the line the link completes in this pass, <<>>
\* when it completes none.
process_serial_input(h, line) ==
    IF line = <<>> THEN h
    ELSE LET h1 == parse_cmd_message(h, line)
         IN  IF parse_button_press(line) = <<"k", "e", "y", "4">>
             THEN [h1 EXCEPT !.running = FALSE]
             ELSE h1

\* The low-pass filter of part_010:520-536 fed with the readings themselves.
sensor_derived(f, ok, raw) ==
    IF ~ok THEN f
    ELSE [initialized |-> TRUE,
          pitch |-> IF f.initialized
                    THEN RDiv(FILTER_ALPHA * raw[1] + (Scale - FILTER_ALPHA) * f.pitch, Scale)
                    ELSE raw[1],
          roll |-> IF f.initialized
                   THEN RDiv(FILTER_ALPHA * raw[2] + (Scale - FILTER_ALPHA) * f.roll, Scale)
                   ELSE raw[2]]

\* part_010:829-880: one pass of the main loop of the HUD.  in says which of
\* the periods have run out and what the sensors deliver.
hud_main_loop(h0, o0, in) ==
    LET h1 == IF in.sensor_due THEN update_attitude_from_sensor(h0, in.sensor_ok, in.raw) ELSE h0
        o == IF in.sensor_due
             THEN [o0 EXCEPT !.sensor = sensor_derived(@, in.sensor_ok, in.raw)]
             ELSE o0
        h2 == IF in.gps_due THEN [h1 EXCEPT !.speed_knots = in.speed] ELSE h1
        send == h2.serial_connected /\ in.telemetry_due
        r == IF in.display_due
             THEN hud_after_draw(draw_attitude_indicator(h2), o, send)
             ELSE [h |-> h2,
                   o |-> [o EXCEPT !.drew = FALSE, !.sent_now = send,
                                   !.sent = IF send THEN send_telemetry_to_pico(h2) ELSE @]]
    IN  IF r.h.serial_connected
        THEN [r EXCEPT !.h = process_serial_input(@, in.line)]
        ELSE r

\* The lines the Pico sends: the two offset commands, the exit button, a
\* release, which is no press.
SerialLines ==
    {<<"C", "M", "D", ":", "O", "F", "F", "S", "E", "T", ":", "P", "I", "T", "C", "H", ":", "5">>,
     <<"C", "M", "D", ":", "O", "F", "F", "S", "E", "T", ":", "R", "O", "L", "L", ":", "-", "3">>,
     <<"B", "T", "N", ":", "k", "e", "y", "4", ":", "P", "R", "E", "S", "S", "E", "D">>,
     <<"B", "T", "N", ":", "k", "e", "y", "4", ":", "R", "E", "L", "E", "A", "S", "E", "D">>}

HudInputs ==
    {[sensor_due |-> x[1], sensor_ok |-> TRUE, raw |-> x[2], gps_due |-> x[3], speed |-> x[4],
      display_due |-> x[5], telemetry_due |-> x[6], line |-> <<>>] :
        x \in BOOLEAN \X AttitudeReadings \X BOOLEAN \X SpeedReadings \X BOOLEAN \X BOOLEAN}
    \cup {[sensor_due |-> TRUE, sensor_ok |-> FALSE, raw |-> <<0, 0>>, gps_due |-> FALSE,
           speed |-> 0, display_due |-> TRUE, telemetry_due |-> TRUE, line |-> <<>>]}
    \cup {[sensor_due |-> x[1], sensor_ok |-> TRUE, raw |-> x[2], gps_due |-> FALSE,
           speed |-> 0, display_due |-> TRUE, telemetry_due |-> x[3], line |-> x[4]] :
            x \in BOOLEAN \X AttitudeReadings \X BOOLEAN \X SerialLines}

HudIdle ==
    /\ hud = Hud0
    /\ hud_out = HudOut0
    /\ pico_out = NoneShown
    /\ hud_loops = 0

HudLooped(r) == hud' = r.h /\ hud_out' = r.o

HudLoop ==
    /\ hud.running
    /\ hud_loops < MaxHudLoops
    /\ \E in \in HudInputs : HudLooped(hud_main_loop(hud, hud_out, in))
    /\ hud_loops' = hud_loops + 1
    /\ UNCHANGED <<pico_out, drvVars, sesVars, uiVars>>

\* The Pico attitude display draws a frame.
PicoDraw ==
    /\ hud_loops < MaxHudLoops
    /\ \E roll \in PicoRolls : pico_out' = pico_draw_attitude_indicator(roll, hud.speed_knots)
    /\ hud_loops' = hud_loops + 1
    /\ UNCHANGED <<hud, hud_out, drvVars, sesVars, uiVars>>

(***************************************************************************)
(* The driver on its own: the public calls in any order after a first       *)
(* icm20948_init.                                                           *)
(***************************************************************************)
MaxCalls == 4                           \* driver calls explored

\* A call returned r: the driver and the device as the call left them, the
\* result, and whether a successful icm20948_init has been seen.
DrvReturned(op, r) ==
    /\ drv' = r.d
    /\ drv_out' = [op |-> op, ok |-> r.ok, data |-> r.data,
                   ready |-> IF op = "init" THEN r.ok ELSE drv_out.ready,
                   calls |-> drv_out.calls + 1]

NoData(r) == [d |-> r.d, ok |-> r.ok, data |-> <<>>]

CallInit ==
    /\ drv_out.calls < MaxCalls
    /\ \E who \in WhoAmI : DrvReturned("init", NoData(icm20948_init(NoBus(drv), who)))
    /\ UNCHANGED <<sesVars, hudVars, uiVars>>

Ready == drv_out.ready /\ drv_out.calls < MaxCalls

CallInitMagnetometer ==
    /\ Ready
    /\ \E who \in MagWhoAmI :
          DrvReturned("init_magnetometer",
                      NoData(icm20948_init_magnetometer(NoBus(drv), who)))
    /\ UNCHANGED <<sesVars, hudVars, uiVars>>

CallReadAccel ==
    /\ Ready
    /\ \E ok \in BOOLEAN, raw \in AccelRaw :
          DrvReturned("read_accel", icm20948_read_accel(NoBus(drv), ok, raw))
    /\ UNCHANGED <<sesVars, hudVars, uiVars>>

CallReadGyro ==
    /\ Ready
    /\ \E ok \in BOOLEAN, raw \in GyroRaw :
          DrvReturned("read_gyro", icm20948_read_gyro(NoBus(drv), ok, raw))
    /\ UNCHANGED <<sesVars, hudVars, uiVars>>

CallReadAccelGyro ==
    /\ Ready
    /\ \E ok \in BOOLEAN, s \in SamplesRaw :
          DrvReturned("read_accel_gyro",
                      icm20948_read_accel_gyro(NoBus(drv), ok, <<s.accel, s.gyro>>))
    /\ UNCHANGED <<sesVars, hudVars, uiVars>>

CallReadMag ==
    /\ Ready
    /\ \E st1 \in BOOLEAN, st2 \in BOOLEAN, raw \in MagRaw :
          DrvReturned("read_mag", icm20948_read_mag(NoBus(drv), st1, st2, raw))
    /\ UNCHANGED <<sesVars, hudVars, uiVars>>

CallSleep ==
    /\ Ready
    /\ DrvReturned("sleep", [d |-> icm20948_sleep(NoBus(drv)), ok |-> TRUE, data |-> <<>>])
    /\ UNCHANGED <<sesVars, hudVars, uiVars>>

CallWake ==
    /\ Ready
    /\ DrvReturned("wake", [d |-> icm20948_wake(NoBus(drv)), ok |-> TRUE, data |-> <<>>])
    /\ UNCHANGED <<sesVars, hudVars, uiVars>>

(***************************************************************************)
(* The specifications.                                                      *)
(***************************************************************************)
(***************************************************************************)
(* The gyro-offset screen of the Pico (part_003:191-297) and the serial     *)
(* link that carries its commands to the HUD.                               *)
(***************************************************************************)
MaxPresses == 3                         \* joystick presses in the offset screen
MaxEntries == 2                         \* entries into the offset screen

\* part_003:195-196: the offsets are statics of action_gyro_offset, in whole
\* degrees; open says whether the screen is in its loop.
GyroOffset0 ==
    [pitch_offset |-> 0, roll_offset |-> 0, open |-> FALSE, entries |-> 0, presses |-> 0]

\* menu_hud.c:44-45 and the statics of its process_serial_input; drawn lists
\* the draw_menu_item calls of the last message as <<index, selected>>, label
\* the index its printf read menu_labels with, <<>> when it read none, last_type
\* the type of the last message, alive whether the process still runs.
Menu0 ==
    [current_selection |-> 0, menu_item_count |-> 4, first_menu |-> TRUE,
     drawn |-> <<>>, label |-> <<>>, last_type |-> "", alive |-> TRUE, messages |-> 0]

\* part_010:667-668: the line buffer of process_serial_input is empty at the
\* start; pending are the bytes the port holds, sent and parsed the lines
\* written to the port and the lines handed to the parsers so far.
Rx0 == [pending |-> <<>>, buffer |-> <<>>, sent |-> <<>>, parsed |-> <<>>]

\* The MenuState of main before menu_init (uninitialised, never read), with
\* what the last call drew and the item it executed, <<>> for none.
PicoMenu0 ==
    [inited |-> FALSE, item_count |-> 0, selection_index |-> 0, last_selection_index |-> 0,
     items |-> 0, positions |-> <<>>, drawn |-> <<>>, executed |-> <<>>, inputs |-> 0]

UiIdle ==
    /\ gyro_offset = GyroOffset0 /\ link = <<>> /\ menu = Menu0 /\ rx = Rx0
    /\ pico_menu = PicoMenu0

DigitChar == <<"0", "1", "2", "3", "4", "5", "6", "7", "8", "9">>

RECURSIVE fmt_digits(_)
fmt_digits(n) ==
    IF n < 10 THEN <<DigitChar[n + 1]>>
    ELSE Append(fmt_digits(n \div 10), DigitChar[(n % 10) + 1])

\* snprintf with "%d": a minus sign for a negative number, then the digits.
fmt_d(n) == IF n < 0 THEN <<"-">> \o fmt_digits(0 - n) ELSE fmt_digits(n)

\* part_003:66-69: the line a command is sent as, without its newline.
send_high_level_command(command) == <<"C", "M", "D", ":">> \o command

\* part_003:199: entering the screen announces the offset mode.
action_gyro_offset_entry(g) ==
    [g |-> [g EXCEPT !.open = TRUE, !.entries = @ + 1],
     lines |-> <<send_high_level_command(<<"O", "F", "F", "S", "E", "T", "_", "M", "O", "D", "E">>)>>]

\* part_003:224-295: one pass of the loop of the screen; in is the set of the
\* buttons just pressed.  Every press moves an offset by one degree and sends
\* it; KEY2 announces the exit and leaves the loop.
action_gyro_offset_loop(g, in) ==
    LET p1 == IF "up" \in in THEN g.pitch_offset + 1 ELSE g.pitch_offset
        l1 == IF "up" \in in
              THEN <<send_high_level_command(<<"O", "F", "F", "S", "E", "T", ":", "P", "I", "T", "C", "H", ":">> \o fmt_d(p1))>> ELSE <<>>
        p2 == IF "down" \in in THEN p1 - 1 ELSE p1
        l2 == IF "down" \in in
              THEN Append(l1, send_high_level_command(<<"O", "F", "F", "S", "E", "T", ":", "P", "I", "T", "C", "H", ":">> \o fmt_d(p2))) ELSE l1
        r1 == IF "left" \in in THEN g.roll_offset - 1 ELSE g.roll_offset
        l3 == IF "left" \in in
              THEN Append(l2, send_high_level_command(<<"O", "F", "F", "S", "E", "T", ":", "R", "O", "L", "L", ":">> \o fmt_d(r1))) ELSE l2
        r2 == IF "right" \in in THEN r1 + 1 ELSE r1
        l4 == IF "right" \in in
              THEN Append(l3, send_high_level_command(<<"O", "F", "F", "S", "E", "T", ":", "R", "O", "L", "L", ":">> \o fmt_d(r2))) ELSE l3
    IN  [g |-> [g EXCEPT !.pitch_offset = p2, !.roll_offset = r2,
                         !.open = "key2" \notin in,
                         !.presses = IF in = {} THEN @ ELSE @ + 1],
         lines |-> IF "key2" \in in
                   THEN Append(l4, send_high_level_command(<<"O", "F", "F", "S", "E", "T", "_", "E", "X", "I", "T">>)) ELSE l4]

\* What one pass of the loop can see pressed.
OffsetPresses == {{"up"}, {"down"}, {"left"}, {"right"}, {"key2"}, {"up", "right"}}

\* Offsets that presses of earlier entries into the screen have left in its
\* statics and, through their commands, in the HUD.
OffsetsLeft == {0, 179, -179}

OffsetSent(r) == gyro_offset' = r.g /\ link' = link \o r.lines

OffsetEnter ==
    /\ ~gyro_offset.open
    /\ gyro_offset.entries < MaxEntries
    /\ OffsetSent(action_gyro_offset_entry(gyro_offset))
    /\ UNCHANGED <<menu, rx, pico_menu, drvVars, sesVars, hudVars>>

OffsetLoop ==
    /\ gyro_offset.open
    /\ gyro_offset.presses < MaxPresses
    /\ \E in \in OffsetPresses : OffsetSent(action_gyro_offset_loop(gyro_offset, in))
    /\ UNCHANGED <<menu, rx, pico_menu, drvVars, sesVars, hudVars>>

\* A pass of the main loop of the HUD that reads the oldest line of the link.
HudReceive ==
    /\ hud.running
    /\ link # <<>>
    /\ \E due \in BOOLEAN :
          HudLooped(hud_main_loop(hud, hud_out,
              [sensor_due |-> due, sensor_ok |-> TRUE, raw |-> <<2 * Scale, -Scale>>,
               gps_due |-> FALSE, speed |-> 0, display_due |-> TRUE,
               telemetry_due |-> FALSE, line |-> Head(link)]))
    /\ link' = Tail(link)
    /\ UNCHANGED <<gyro_offset, menu, rx, pico_menu, pico_out, hud_loops, drvVars, sesVars>>

InitOffset ==
    /\ SesIdle /\ drv = DrvInit0 /\ drv_out = DrvOut0
    /\ \E p \in OffsetsLeft, r \in OffsetsLeft :
          /\ gyro_offset = [GyroOffset0 EXCEPT !.pitch_offset = p, !.roll_offset = r]
          /\ hud = [Hud0 EXCEPT !.pitch_offset = p * Scale, !.roll_offset = r * Scale]
    /\ hud_out = HudOut0 /\ pico_out = NoneShown /\ hud_loops = 0
    /\ link = <<>> /\ menu = Menu0 /\ rx = Rx0 /\ pico_menu = PicoMenu0
NextOffset == OffsetEnter \/ OffsetLoop \/ HudReceive
SpecOffset == InitOffset /\ [][NextOffset]_vars

(***************************************************************************)
(* The menu HUD of the Raspberry Pi (src/rpi/c/src/menu_hud.c).             *)
(***************************************************************************)
MaxMessages == 3                        \* lines the menu HUD receives
MENU_ITEMS_MAX == 4

\* menu_hud.c:195-205: the type of a message, "" for NULL.
get_message_type(json) ==
    LET i == strstr(json, <<"\"", "t", "y", "p", "e", "\"", ":", "\"">>)
        t == From(json, i + 8)
    IN  IF i = 0 THEN ""
        ELSE IF StartsWith(t, <<"s", "p", "l", "a", "s", "h">>) THEN "splash"
        ELSE IF StartsWith(t, <<"m", "e", "n", "u">>) THEN "menu"
        ELSE IF StartsWith(t, <<"a", "c", "t", "i", "o", "n">>) THEN "action"
        ELSE ""

\* menu_hud.c:172-192: ok is the value returned, selected and total what the
\* out-parameters hold afterwards (they enter as 0 and MENU_ITEMS_MAX).
parse_menu_message(json) ==
    LET sel == strstr(json, <<"\"", "s", "e", "l", "e", "c", "t", "e", "d", "\"", ":">>)
        tot == strstr(json, <<"\"", "t", "o", "t", "a", "l", "\"", ":">>)
    IN  [ok |-> sel # 0,
         selected |-> IF sel # 0 THEN atoi(From(json, sel + 11)) ELSE 0,
         total |-> IF sel # 0 /\ tot # 0 THEN atoi(From(json, tot + 8)) ELSE MENU_ITEMS_MAX]

\* menu_hud.c:119-141
draw_menu_item(m, index, selected) ==
    IF index < 0 \/ index >= m.menu_item_count THEN m
    ELSE [m EXCEPT !.drawn = Append(@, <<index, selected>>)]

\* menu_hud.c:144-159: the loop of draw_menu from item i on.
RECURSIVE draw_menu_from(_, _)
draw_menu_from(m, i) ==
    IF i >= m.menu_item_count THEN m
    ELSE draw_menu_from(draw_menu_item(m, i, i = m.current_selection), i + 1)

draw_menu(m) == draw_menu_from(m, 0)

\* menu_hud.c:162-169
update_selection(m, old_selection, new_selection) ==
    LET m1 == IF old_selection >= 0 /\ old_selection < m.menu_item_count
              THEN draw_menu_item(m, old_selection, FALSE) ELSE m
    IN  IF new_selection >= 0 /\ new_selection < m1.menu_item_count
        THEN draw_menu_item(m1, new_selection, TRUE) ELSE m1

\* menu_hud.c:227-249: a menu message whose selected index was found.
apply_menu_message(m, selected0, total) ==
    LET s1 == IF selected0 < 0 THEN 0 ELSE selected0
        selected == IF s1 >= total THEN total - 1 ELSE s1
        m1 == [m EXCEPT !.current_selection = selected, !.menu_item_count = total,
                        !.first_menu = FALSE, !.label = <<selected>>]
    IN  IF m.first_menu THEN draw_menu(m1)
        ELSE update_selection(m1, m.current_selection, selected)

\* menu_hud.c:208-271: what process_serial_input does with a complete line.
menu_process_serial_input(m0, line) ==
    LET type == get_message_type(line)
        m == [m0 EXCEPT !.drawn = <<>>, !.label = <<>>, !.last_type = type,
                        !.messages = @ + 1]
        p == parse_menu_message(line)
    IN  IF type = "menu"
        THEN (IF p.ok THEN apply_menu_message(m, p.selected, p.total)
              ELSE [m EXCEPT !.last_type = ""])
        ELSE IF type = "action"
        THEN draw_menu_item([m EXCEPT !.label = <<m.current_selection>>],
                            m.current_selection, TRUE)
        ELSE m

\* The menu message the Pico writes for a selection and a total.
MenuLine(selected, total) ==
    <<"{", "\"", "t", "y", "p", "e", "\"", ":", "\"", "m", "e", "n", "u", "\"", ",", "\"", "s", "e", "l", "e", "c", "t", "e", "d", "\"", ":">> \o fmt_d(selected)
        \o <<",", "\"", "t", "o", "t", "a", "l", "\"", ":">> \o fmt_d(total) \o <<"}">>

\* The lines the menu HUD meets: menu messages in and out of range, one with
\* no total, one with no selected index, the splash, an action, and noise.
MenuLines ==
    {MenuLine(x[1], x[2]) : x \in {-1, 0, 2, 5} \X {4, 3, 0}}
    \cup {<<"{", "\"", "t", "y", "p", "e", "\"", ":", "\"", "m", "e", "n", "u", "\"", ",", "\"", "s", "e", "l", "e", "c", "t", "e", "d", "\"", ":">> \o <<"1", "}">>,
          <<"{", "\"", "t", "y", "p", "e", "\"", ":", "\"", "m", "e", "n", "u", "\"", ",", "\"", "t", "o", "t", "a", "l", "\"", ":", "4", "}">>,
          <<"{", "\"", "t", "y", "p", "e", "\"", ":", "\"", "s", "p", "l", "a", "s", "h", "\"", "}">>,
          <<"{", "\"", "t", "y", "p", "e", "\"", ":", "\"", "a", "c", "t", "i", "o", "n", "\"", ",", "\"", "s", "e", "l", "e", "c", "t", "e", "d", "\"", ":", "0", "}">>,
          <<"B", "T", "N", ":", "k", "e", "y", "4", ":", "P", "R", "E", "S", "S", "E", "D">>}

\* menu_labels has MENU_ITEMS_MAX entries: reading it with another index is
\* undefined, and the process survives the read or does not.
MenuReceive ==
    /\ menu.alive
    /\ menu.messages < MaxMessages
    /\ \E line \in MenuLines, survives \in BOOLEAN :
          LET m == menu_process_serial_input(menu, line)
          IN  /\ ~survives => m.label # <<>> /\ m.label[1] \notin 0..(MENU_ITEMS_MAX - 1)
              /\ menu' = [m EXCEPT !.alive = survives]
    /\ UNCHANGED <<gyro_offset, link, rx, pico_menu, drvVars, sesVars, hudVars>>

(***************************************************************************)
(* The serial input of the HUD, character by character (part_010:665-715).  *)
(* The readers of src/pico/main_menu.c:153-171, src/rpi/c/src/menu_hud.c:   *)
(* 207-272 and part_004:126-161 keep their line buffers the same way.       *)
(***************************************************************************)
BUFFER_SIZE == 256
MAX_CHARS_PER_CALL == 32
MaxLines == 2                           \* lines written to the port

NL == "\n"

\* part_010:674-712: the loop of process_serial_input over the characters
\* chars that read() delivers in this call.  A newline hands a non-empty
\* buffer to the parsers and empties it; any other character is stored while
\* there is room, and empties the buffer when there is none.
RECURSIVE serial_read_loop(_, _, _, _)
serial_read_loop(h, buffer, parsed, chars) ==
    IF chars = <<>> THEN [h |-> h, buffer |-> buffer, parsed |-> parsed]
    ELSE IF Head(chars) \in {NL, "\r"}
    THEN (IF Len(buffer) > 0
          THEN serial_read_loop(process_serial_input(h, buffer), <<>>,
                                Append(parsed, buffer), Tail(chars))
          ELSE serial_read_loop(h, buffer, parsed, Tail(chars)))
    ELSE IF Len(buffer) < BUFFER_SIZE - 1
    THEN serial_read_loop(h, Append(buffer, Head(chars)), parsed, Tail(chars))
    ELSE serial_read_loop(h, <<>>, parsed, Tail(chars))

Pad(n) == [i \in 1..n |-> "x"]
PitchCommand ==
    <<"C", "M", "D", ":", "O", "F", "F", "S", "E", "T", ":", "P", "I", "T", "C", "H", ":", "5">>
RollCommand ==
    <<"C", "M", "D", ":", "O", "F", "F", "S", "E", "T", ":", "R", "O", "L", "L", ":", "-", "3">>

\* The lines written to the port: two commands, a line that just fits the
\* buffer, and a line that does not and ends in the text of a command.
SentLines == {PitchCommand, RollCommand, Pad(BUFFER_SIZE - 1), Pad(BUFFER_SIZE) \o PitchCommand}

\* The Pico, or noise on the line, writes a line and its newline.
SerialWrite ==
    /\ Len(rx.sent) < MaxLines
    /\ \E l \in SentLines :
          rx' = [rx EXCEPT !.pending = @ \o l \o <<NL>>, !.sent = Append(@, l)]
    /\ UNCHANGED <<gyro_offset, link, menu, pico_menu, drvVars, sesVars, hudVars>>

\* A call of process_serial_input: it reads what the port holds, at most
\* MAX_CHARS_PER_CALL characters.
HudSerialRead ==
    /\ hud.running /\ hud.serial_connected
    /\ rx.pending # <<>>
    /\ LET n == IF Len(rx.pending) < MAX_CHARS_PER_CALL THEN Len(rx.pending)
                ELSE MAX_CHARS_PER_CALL
           r == serial_read_loop(hud, rx.buffer, rx.parsed, SubSeq(rx.pending, 1, n))
       IN  /\ hud' = r.h
           /\ rx' = [rx EXCEPT !.pending = SubSeq(@, n + 1, Len(@)), !.buffer = r.buffer,
                               !.parsed = r.parsed]
    /\ UNCHANGED <<gyro_offset, link, menu, pico_menu, hud_out, pico_out, hud_loops, drvVars,
                   sesVars>>

InitSerial == SesIdle /\ drv = DrvInit0 /\ drv_out = DrvOut0 /\ HudIdle /\ UiIdle
NextSerial == SerialWrite \/ HudSerialRead
SpecSerial == InitSerial /\ [][NextSerial]_vars

(***************************************************************************)
(* The menu of the Pico (src/unnamed/part_009) as its programs set it up.   *)
(***************************************************************************)
MaxInputs == 3                          \* calls of menu_handle_input

\* part_009:7-12
default_positions ==
    <<[x |-> 5, y |-> 20, width |-> 310, height |-> 35],
      [x |-> 5, y |-> 60, width |-> 310, height |-> 35],
      [x |-> 5, y |-> 100, width |-> 310, height |-> 35],
      [x |-> 5, y |-> 140, width |-> 310, height |-> 35]>>

\* What a read past the end of a positions table can give.
StrayRects ==
    {[x |-> 0, y |-> 0, width |-> 0, height |-> 0],
     [x |-> 65535, y |-> 65535, width |-> 65535, height |-> 65535]}

\* The item counts the programs pass to menu_init, always with no positions
\* table of their own: part_003:695, src/pico/main_menu.c:361, gps.c:601.
MenuCounts == {5, 2, 4}

\* part_009:14-20; items is the number of entries of the items table.
menu_init(m, items, count, positions) ==
    [m EXCEPT !.inited = TRUE, !.items = items, !.item_count = count,
              !.selection_index = -1, !.last_selection_index = -2,
              !.positions = IF positions = <<>> THEN default_positions ELSE positions]

\* part_009:40-62: the item is drawn in the rectangle read from the positions
\* table; stray is what the read gives when index is past the end of it.
menu_draw_item(m, index, selected, stray) ==
    IF index < 0 \/ index >= m.item_count THEN m
    ELSE [m EXCEPT !.drawn = Append(@,
              [index |-> index, selected |-> selected,
               rect |-> IF index < Len(m.positions) THEN m.positions[index + 1] ELSE stray])]

\* part_009:65-75: the loop of menu_draw_full from item i on.
RECURSIVE menu_draw_from(_, _, _)
menu_draw_from(m, i, stray) ==
    IF i >= m.item_count THEN m
    ELSE menu_draw_from(menu_draw_item(m, i, i = m.selection_index, stray), i + 1, stray)

menu_draw_full(m, stray) ==
    [menu_draw_from(m, 0, stray) EXCEPT !.last_selection_index = m.selection_index]

\* part_009:78-95
menu_update_selection(m, stray) ==
    LET m1 == IF m.last_selection_index >= 0 /\ m.last_selection_index < m.item_count
              THEN menu_draw_item(m, m.last_selection_index, FALSE, stray) ELSE m
        m2 == IF m.selection_index >= 0 /\ m.selection_index < m.item_count
              THEN menu_draw_item(m1, m.selection_index, TRUE, stray) ELSE m1
    IN  IF m.selection_index = m.last_selection_index THEN m
        ELSE [m2 EXCEPT !.last_selection_index = m.selection_index]

\* part_009:98-138; in is the set of the buttons just pressed.
menu_handle_input(m0, in, stray) ==
    LET m1 == IF "down" \in in
              THEN menu_update_selection(
                       [m0 EXCEPT !.selection_index =
                            IF @ = -1 THEN 0 ELSE (@ + 1) % m0.item_count], stray)
              ELSE m0
        m2 == IF "up" \in in
              THEN menu_update_selection(
                       [m1 EXCEPT !.selection_index =
                            IF @ = -1 THEN m1.item_count - 1
                            ELSE (@ - 1 + m1.item_count) % m1.item_count], stray)
              ELSE m1
    IN  IF ("right" \in in \/ "press" \in in) /\ m2.selection_index >= 0
        THEN [m2 EXCEPT !.executed = <<m2.selection_index>>]
        ELSE m2

\* What one pass of the main loop can see pressed.
MenuPresses == {{"down"}, {"up"}, {"right"}, {"press"}, {"down", "up"}, {"up", "right"}}

\* main up to its loop (part_003:693-698): menu_init and menu_draw_full.
PicoMenuInit ==
    /\ ~pico_menu.inited
    /\ \E count \in MenuCounts, stray \in StrayRects :
          pico_menu' = menu_draw_full(menu_init(pico_menu, count, count, <<>>), stray)
    /\ UNCHANGED <<gyro_offset, link, menu, rx, drvVars, sesVars, hudVars>>

\* A pass of the main loop that finds a button pressed.
PicoMenuInput ==
    /\ pico_menu.inited
    /\ pico_menu.inputs < MaxInputs
    /\ \E in \in MenuPresses, stray \in StrayRects :
          pico_menu' = menu_handle_input(
              [pico_menu EXCEPT !.drawn = <<>>, !.executed = <<>>, !.inputs = @ + 1], in, stray)
    /\ UNCHANGED <<gyro_offset, link, menu, rx, drvVars, sesVars, hudVars>>

InitPicoMenu == SesIdle /\ drv = DrvInit0 /\ drv_out = DrvOut0 /\ HudIdle /\ UiIdle
NextPicoMenu == PicoMenuInit \/ PicoMenuInput
SpecPicoMenu == InitPicoMenu /\ [][NextPicoMenu]_vars

InitMenu == SesIdle /\ drv = DrvInit0 /\ drv_out = DrvOut0 /\ HudIdle /\ UiIdle
NextMenu == MenuReceive
SpecMenu == InitMenu /\ [][NextMenu]_vars

Init == SesInit /\ drv = DrvInit0 /\ drv_out = DrvOut0 /\ HudIdle /\ UiIdle
Next == Enter \/ FailWait \/ CalSample \/ CalEnd \/ RunLoop
Spec == Init /\ [][Next]_vars

InitDrv == SesIdle /\ drv = DrvInit0 /\ drv_out = DrvOut0 /\ HudIdle /\ UiIdle
NextDrv ==
    \/ CallInit \/ CallInitMagnetometer \/ CallReadAccel \/ CallReadGyro
    \/ CallReadAccelGyro \/ CallReadMag \/ CallSleep \/ CallWake
SpecDrv == InitDrv /\ [][NextDrv]_vars

InitWarn ==
    /\ SesIdle /\ drv = DrvInit0 /\ drv_out = DrvOut0
    /\ hud \in {[Hud0 EXCEPT !.serial_connected = c] : c \in BOOLEAN}
    /\ hud_out = HudOut0
    /\ pico_out = NoneShown
    /\ hud_loops = 0
    /\ UiIdle
NextWarn == HudLoop \/ PicoDraw
SpecWarn == InitWarn /\ [][NextWarn]_vars

(***************************************************************************)
(* Properties.                                                              *)
(***************************************************************************)
\* The attitude state a tick may not touch when its read fails.
AttitudeState(a) ==
    <<a.filter, a.bias, a.abias, a.roll, a.pitch, a.heading, a.smooth_roll, a.smooth_pitch>>

\* C1: a pass of the run loop whose accelerometer+gyroscope read reports
\* failure leaves the quaternion (and the rest of the filter), the biases,
\* roll, pitch, heading and the smoothed roll and pitch as they were, and the
\* loop is still running afterwards.
C1_FailedReadKeepsAttitude ==
    [][(pc = "running" /\ last'.kind = "read_fail")
          => (AttitudeState(ahrs') = AttitudeState(ahrs) /\ pc' = "running")]_vars

\* A failed read after an update that moved the attitude, in either build.
C1_Witness ==
    /\ last.kind = "read_fail"
    /\ ~IsNaNQ(ahrs.filter)
    /\ ahrs.roll # 0
    /\ ahrs.filter # madgwick_init(LOOP_HZ * Scale, IF build = "A" THEN BETA_A ELSE BETA_B)

\* C2: when the WHO_AM_I byte read by icm20948_init is not the device ID, the
\* init reports failure and the session runs no calibration pass and no pass of
\* the run loop: it stays on the failure screen or goes back to the menu.
C2_NoSessionAfterIdentityMismatch ==
    (session.n > 0 /\ session.who_am_i # ICM20948_DEVICE_ID)
        => /\ ~session.init_ok
           /\ session.steps = 0
           /\ pc \in {"failed", "menu"}
           /\ last.updates = <<>>
           /\ ~last.rendered

\* A session whose identity check failed and that has been waiting since.
C2_Witness ==
    /\ session.n > 0
    /\ session.who_am_i # ICM20948_DEVICE_ID
    /\ last.kind \in {"fail_wait", "back"}

\* C3: a pass of the run loop whose accelerometer+gyroscope read succeeded
\* runs exactly one filter update: the MARG update if the magnetometer read of
\* that pass succeeded, the IMU-only update if it failed or was not made.
C3_OneUpdatePerGoodRead ==
    (last.kind \in {"update", "reinit", "gated"})
        => /\ Len(last.updates) = 1
           /\ (last.mag = "ok") <=> (last.updates = <<"marg">>)
           /\ (last.mag # "ok") <=> (last.updates = <<"imu">>)

\* A pass whose magnetometer read failed and that fell back to the IMU update.
C3_Witness ==
    /\ last.kind = "update"
    /\ last.mag = "failed"
    /\ last.updates = <<"imu">>

\* C4: no filter update runs before the calibration of the session has ended;
\* while the calibration runs the quaternion is the identity madgwick_init set.
C4_NoUpdateBeforeCalibration ==
    /\ last.updates # <<>> => session.cal_done
    /\ pc = "running" => session.cal_done
    /\ pc = "calibrating" => (ahrs.filter.q0 = Scale /\ ahrs.filter.q1 = 0
                              /\ ahrs.filter.q2 = 0 /\ ahrs.filter.q3 = 0)

\* A filter update in a session whose calibration has ended.
C4_Witness == last.updates # <<>> /\ session.cal_done /\ ahrs.cal_i = CalWindow

\* The calls of select_bank in a bus history, by position.
SelectCalls(bus) == {i \in 1..Len(bus) : bus[i].kind = "call_select"}

FirstSelect(bus) == CHOOSE i \in SelectCalls(bus) : \A j \in SelectCalls(bus) : i <= j

IsBankWrite(bus, i) == i <= Len(bus) /\ bus[i].kind = "bank_sel"

\* C5: every icm20948_init starts from the cached bank "unknown", so that its
\* first select_bank writes the bank-select register: after power-up and on
\* every later initialisation.
C5_FirstSelectOfInitWrites ==
    drv_out.op = "init"
        => /\ SelectCalls(drv.bus) # {}
           /\ drv.bus[FirstSelect(drv.bus)].have = BANK_UNINIT
           /\ IsBankWrite(drv.bus, FirstSelect(drv.bus) + 1)

\* C6: select_bank(b) with b the cached bank makes no transaction and leaves
\* the cached bank and the device alone; with b another bank it makes exactly
\* one write, of b << 4 to REG_BANK_SEL, and the cached bank becomes b.
C6_SelectBankElidesOrWritesOnce ==
    \A i \in SelectCalls(drv.bus) :
        LET e == drv.bus[i]
        IN  IF e.want = e.have
            THEN e.val = e.have /\ ~IsBankWrite(drv.bus, i + 1)
            ELSE /\ e.val = e.want
                 /\ IsBankWrite(drv.bus, i + 1)
                 /\ drv.bus[i + 1].reg = ICM20948_REG_BANK_SEL
                 /\ drv.bus[i + 1].val = e.want * 16
                 /\ ~IsBankWrite(drv.bus, i + 2)

\* A call in which one select_bank was elided and another one wrote.
C6_Witness ==
    /\ \E i \in SelectCalls(drv.bus) : drv.bus[i].want = drv.bus[i].have
    /\ \E i \in SelectCalls(drv.bus) :
          drv.bus[i].want # drv.bus[i].have /\ drv.bus[i].have # BANK_UNINIT

\* C7: after every filter update the squared norm of the quaternion is within
\* a small epsilon (0.01) of 1 and no component is non-finite.
C7_UnitNormAfterUpdate ==
    last.updates # <<>>
        => /\ ~IsNaNQ(ahrs.filter)
           /\ Abs(SqNorm4(ahrs.filter.q0, ahrs.filter.q1, ahrs.filter.q2, ahrs.filter.q3)
                  - Scale * Scale) <= 10 * Scale

\* The limit the claim gives for a speed: 20 below the cutoff, 30 above it.
ClaimedBankExceeded(o) ==
    /\ o.speed_knots < 85 * Scale => (o.bank_warning <=> Abs(o.roll) > 20 * Scale)
    /\ o.speed_knots > 85 * Scale => (o.bank_warning <=> Abs(o.roll) > 30 * Scale)
    /\ (o.roll = 25 * Scale /\ o.speed_knots = 80 * Scale) => o.bank_warning
    /\ (o.roll = 25 * Scale /\ o.speed_knots = 100 * Scale) => ~o.bank_warning

\* C8: wherever the bank warning is drawn or sent (the HUD's display, the
\* HUD's telemetry, the Pico's attitude display) it is on exactly when |roll|
\* exceeds the limit for the speed at that moment.
C8_BankWarningFollowsSpeed ==
    /\ hud_out.shown.drawn => ClaimedBankExceeded(hud_out.shown)
    /\ hud_out.sent.drawn => ClaimedBankExceeded(hud_out.sent)
    /\ pico_out.drawn => ClaimedBankExceeded(pico_out)

ClaimedPitchExceeded(o) ==
    /\ o.pitch_warning <=> (o.pitch > 20 * Scale \/ o.pitch < -20 * Scale)
    /\ o.pitch = 21 * Scale => o.pitch_warning
    /\ o.pitch = 19 * Scale => ~o.pitch_warning

\* C9: the pitch warning the HUD draws or sends is computed in that very pass
\* of the main loop from the attitude the pass ends with, and it is on exactly
\* when |pitch| > 20 degrees.
C9_PitchWarningRecomputed ==
    /\ hud_out.shown.drawn => ClaimedPitchExceeded(hud_out.shown)
    /\ hud_out.sent.drawn => ClaimedPitchExceeded(hud_out.sent)
    /\ hud_out.drew => hud_out.shown.pitch = hud.attitude.pitch
    /\ hud_out.sent_now => hud_out.sent.pitch = hud.attitude.pitch

\* A frame drawn with the warning on, after a telemetry line sent at 19
\* degrees with the warning off.
C9_Witness ==
    /\ hud_out.drew /\ hud_out.shown.pitch_warning
    /\ hud_out.sent.drawn /\ hud_out.sent.pitch = 19 * Scale /\ ~hud_out.sent.pitch_warning

\* C10: when the run loop has left Running on the exit signal, the sensor is
\* asleep.
C10_SleepBeforeReturn == last.kind = "exit" => drv.sleeping

\* The inputs one pass of the run loop of this build can meet.
TickInputs == IF build = "A" THEN InputsA ELSE InputsB

\* The pass of the run loop the session would make now on in.
TickOn(in) ==
    IF build = "A" THEN attitude_indicator_loop(ahrs, NoBus(drv), in)
    ELSE action_test_gyro_loop(ahrs, NoBus(drv), in)

\* Accelerometer samples far from 1 g: 2 g banked 20 degrees, 2 g level.
GatedAccel == {<<5792, 0, 15320>>, <<0, 0, 16384>>}

\* C11: in a tick whose accelerometer norm is far from 1 g the accelerometer
\* has no effect on the quaternion: whatever out-of-envelope vector is read,
\* the tick leaves the same filter.
C11_GatedAccelHasNoEffect ==
    pc = "running"
        => \A in \in TickInputs : \A acc1 \in GatedAccel, acc2 \in GatedAccel :
              TickOn([in EXCEPT !.accel = acc1]).a.filter
                  = TickOn([in EXCEPT !.accel = acc2]).a.filter

\* |a - b| <= 1: equal up to the rounding of the last digit.
Near(a, b) == a - b <= 1 /\ b - a <= 1

\* The attitude v, drawn or sent, is the sensor-derived attitude f plus the
\* offsets po and ro.
OffsetApplied(v, f, po, ro) == Near(v.pitch, f.pitch + po) /\ Near(v.roll, f.roll + ro)

\* C12: once an offset command has been processed, every pitch and roll that a
\* later pass of the main loop draws, evaluates the warnings on or sends is the
\* sensor-derived value plus the offset in force in that pass.
C12_OffsetAppliedToAttitude ==
    [][hud_loops' # hud_loops /\ hud_out'.sensor.initialized
        => /\ hud_out'.drew
                => OffsetApplied(hud_out'.shown, hud_out'.sensor,
                                 hud.pitch_offset, hud.roll_offset)
           /\ hud_out'.sent_now
                => OffsetApplied(hud_out'.sent, hud_out'.sensor,
                                 hud.pitch_offset, hud.roll_offset)]_vars

Toward(old, new, target) ==
    (old <= new /\ new <= target) \/ (target <= new /\ new <= old)

\* C14: the sample of a tick of build B never moves the bias estimate of an
\* axis away from the gyroscope sample, and an estimate that the stationary
\* trim has moved is within 1.2 deg/s of the sample on every axis: fed a
\* constant bias b, the estimate stays within b +- 1.2 deg/s and only
\* approaches b.
C14_TrimApproachesSample ==
    pc = "running" /\ build = "B"
        => \A in \in InputsB :
              LET new == action_test_gyro_bias(ahrs, in)
                  raw == GyroDps(in.gyro, GYRO_RANGE_500DPS)
              IN  /\ \A k \in 1..3 : Toward(ahrs.bias[k], new[k], raw[k])
                  /\ new # ahrs.bias => \A k \in 1..3 : Abs(raw[k] - new[k]) < 1200

\* A session of build B whose bias estimate the trim has moved off the value
\* the calibration stored.
C14_Witness ==
    /\ build = "B" /\ pc = "running" /\ last.kind = "update"
    /\ ahrs.bias # Vec3Div(ahrs.cal_sum, CalWindow)

\* The Euler conversion this build applies to its filter.
EulerOf(f) == IF build = "A" THEN madgwick_get_euler(f) ELSE quaternion_to_euler(f)

\* C15: for every quaternion the filter holds after an update, the Euler
\* conversion gives a pitch in [-90, 90] and a roll in (-180, 180] degrees, and
\* the wrapped heading is in [0, 360).
C15_EulerRanges ==
    last.updates # <<>>
        => LET e == EulerOf(ahrs.filter)
           IN  /\ -90 * Scale <= e.pitch /\ e.pitch <= 90 * Scale
               /\ -180 * Scale < e.roll /\ e.roll <= 180 * Scale
               /\ 0 <= wrap360(e.yaw) /\ wrap360(e.yaw) < 360 * Scale

\* C16: whatever is pressed in the gyro-offset screen, over any number of
\* entries, the pitch and roll offsets the Pico holds and those the HUD
\* applies stay within +-180 degrees.
C16_OffsetsWithinRange ==
    /\ Abs(gyro_offset.pitch_offset) <= 180 /\ Abs(gyro_offset.roll_offset) <= 180
    /\ Abs(hud.pitch_offset) <= 180 * Scale /\ Abs(hud.roll_offset) <= 180 * Scale

\* C17: after every menu message the selection that is applied is in
\* [0, total - 1], and the item drawn as selected is that selection.
C17_SelectionClamped ==
    menu.last_type = "menu"
        => /\ 0 <= menu.current_selection
           /\ menu.current_selection <= menu.menu_item_count - 1
           /\ \A k \in 1..Len(menu.drawn) :
                 menu.drawn[k][2] => menu.drawn[k][1] = menu.current_selection

\* The register reads among the bus transactions of a pass.
SensorReads(bus) == {i \in 1..Len(bus) : bus[i].kind \in {"read", "burst"}}

\* C18: a pass of the run loop that finds the exit button pressed leaves
\* Running without a sensor read, a filter update or a render, the attitude
\* state as it was; and passes are made in Running only, so none follows.
C18_ExitPolledBeforeRead ==
    /\ [](pc = "running"
            => \A in \in TickInputs :
                  in.key2 => /\ TickOn(in).pc = "menu"
                             /\ SensorReads(TickOn(in).d.bus) = {}
                             /\ TickOn(in).last = Outcome("exit", <<>>, "none", FALSE)
                             /\ AttitudeState(TickOn(in).a) = AttitudeState(ahrs))
    /\ [][ticks' # ticks => pc = "running"]_vars

\* The exit button found pressed after two passes of the run loop.
C18_Witness == last.kind = "exit" /\ pc = "menu" /\ ticks >= 3

\* The largest measured step, in microseconds, this build takes as plausible
\* (attitude_indicator.c:315, part_003:518).
PlausibleUs == IF build = "A" THEN 50000 ELSE 200000

\* C19: the dt a pass hands to the filter is the time measured since the
\* previous pass that sampled, in ms, unless that time is not positive or is
\* above the plausibility bound, and then it is the nominal period 1/LOOP_HZ.
\* The first pass of build A has no previous pass and is left out.
C19_DtMeasuredOrNominal ==
    pc = "running" /\ ~(build = "A" /\ ~ahrs.has_update)
        => \A in \in TickInputs :
              LET measured == ahrs.since_update + in.elapsed
              IN  TickOn(in).last.updates # <<>>
                    => TickOn(in).a.filter.inv_sample_freq
                          = IF measured <= 0 \/ measured > PlausibleUs
                            THEN RDiv(Scale, LOOP_HZ)
                            ELSE RDiv(measured, 1000)

\* C20: the attitude is handed to the display on every Nth pass only, N >= 2:
\* a pass of the run loop that follows a pass that rendered does not render.
C20_NoConsecutiveRenders ==
    [][(pc = "running" /\ last.rendered /\ ticks' # ticks) => ~last'.rendered]_vars

C22_FailedMagnetometerMeansImuOnly ==
    (build = "A" /\ session.init_ok /\ ~session.mag_ok) => last.updates # <<"marg">>


\* The samples of a tick that passes both reads and the rate limit.
Trims(a) == {in \in InputsB : ~in.key2 /\ in.aok /\ in.gok /\ stationary(a, in)}

\* C23: a pass of the run loop changes the gyroscope bias only by the trim of
\* a stationary sample: in every tick whose sample is not stationary the bias
\* after the tick is the bias before it (build A has no trim at all).
C23_BiasKeptUnlessStationary ==
    [][(pc = "running" /\ pc' # "calibrating" /\ ahrs'.bias # ahrs.bias)
          => /\ build = "B"
             /\ \E in \in Trims(ahrs) :
                   ahrs'.bias = trim_bias(ahrs.bias, GyroDps(in.gyro, GYRO_RANGE_500DPS),
                                          action_test_gyro_dt(ahrs, in))]_vars

\* A tick of build B has updated the filter on a sample that was not
\* stationary: the bias is the one the calibration stored and, with it, no
\* sample is stationary.
C23_Witness ==
    /\ build = "B" /\ pc = "running" /\ last.kind = "update"
    /\ ahrs.bias = Vec3Div(ahrs.cal_sum, CalWindow)
    /\ \A in \in InputsB : ~stationary(ahrs, in)


\* What the HUD drew and what it sent to the Pico.
HudWarnings == {hud_out.shown, hud_out.sent}

\* C24 as stated: at exactly the cutoff speed of 85 knots the bank warning of
\* the HUD follows the 30 degree limit, the 20 degree limit only below it.
C24_CutoffTakesHigherLimit ==
    \A o \in HudWarnings :
        o.drawn => /\ o.speed_knots >= 85 * Scale => (o.bank_warning <=> Abs(o.roll) > 30 * Scale)
                   /\ o.speed_knots < 85 * Scale => (o.bank_warning <=> Abs(o.roll) > 20 * Scale)

\* C24 as the code has it: up to and including 85 knots the bank warning of the
\* HUD follows the 20 degree limit, the 30 degree limit only above 85 knots.
C24_CutoffTakesLowerLimit ==
    \A o \in HudWarnings :
        o.drawn => /\ o.speed_knots <= 85 * Scale => (o.bank_warning <=> Abs(o.roll) > 20 * Scale)
                   /\ o.speed_knots > 85 * Scale => (o.bank_warning <=> Abs(o.roll) > 30 * Scale)

\* The HUD has drawn a bank of 25 degrees at exactly 85 knots, with the warning.
C24_Witness ==
    /\ hud_out.shown.drawn /\ hud_out.shown.speed_knots = 85 * Scale
    /\ Abs(hud_out.shown.roll) = 25 * Scale /\ hud_out.shown.bank_warning


\* What an update that skips the correction leaves: the gyroscope rates g
\* (deg/s) integrated into f and the result renormalised.
GyroOnly(f, g) ==
    NormaliseUnguarded(f, Integrate(f, QDot(f, DegToRad(g[1]), DegToRad(g[2]), DegToRad(g[3]))))

\* C25: an update whose magnetometer vector has a zero norm skips the
\* correction and divides by no norm: for every sample the display of build A
\* can read now, a MARG update on a zero magnetometer vector leaves the
\* quaternion the gyroscope integration and the renormalisation alone give.
C25_ZeroNormSkipsCorrection ==
    (build = "A" /\ pc = "running" /\ ~IsNaNQ(ahrs.filter))
        => \A in \in InputsA :
              LET m == icm20948_read_mag(drv, in.st1, in.st2, in.mag)
                  g == Vec3Sub(GyroDps(in.gyro, GYRO_RANGE_500DPS), ahrs.bias)
              IN  (in.ok /\ m.ok /\ m.data = <<0, 0, 0>>)
                     => filter_update(ahrs.filter, g, AccelG(in.accel, ACCEL_RANGE_4G), m).f
                            = GyroOnly(ahrs.filter, g)


\* A transfer of slave 0 is requested: I2C_SLV0_CTRL written with the enable
\* bit while the device is in bank 3.
IsRequest(e) ==
    e.kind = "write" /\ e.have = 3 /\ e.reg = ICM20948_I2C_SLV0_CTRL.addr /\ e.val >= 128

\* The result of a transfer is read from the shadow area in bank 0.
IsResultRead(e) ==
    e.kind \in {"read", "burst"} /\ e.have = 0 /\ e.reg = ICM20948_EXT_SLV_SENS_DATA_00.addr

\* Of the bus traffic from its i-th event on, with s ms of the settle delay of
\* the last request still to pass: a request or a result read comes too early.
RECURSIVE TooEarly(_, _, _)
TooEarly(bus, i, s) ==
    IF i > Len(bus) THEN FALSE
    ELSE IF bus[i].kind = "delay"
    THEN TooEarly(bus, i + 1, IF s > bus[i].val THEN s - bus[i].val ELSE 0)
    ELSE IF IsRequest(bus[i]) THEN s > 0 \/ TooEarly(bus, i + 1, SettleMs)
    ELSE IF IsResultRead(bus[i]) THEN s > 0 \/ TooEarly(bus, i + 1, s)
    ELSE TooEarly(bus, i + 1, s)

ExitPress ==
    /\ \/ /\ pc = "running"
          /\ \E in \in TickInputs : in.key2 /\ Looped(TickOn(in))
       \/ /\ pc = "failed" /\ build = "B"
          /\ pc' = "menu" /\ drv' = NoBus(drv) /\ ahrs' = ahrs
          /\ last' = Outcome("back", <<>>, "none", FALSE)
    /\ UNCHANGED <<build, session, ticks, drv_out, hudVars, uiVars>>

\* The calibration runs to its end by itself, and the pilot presses KEY2
\* whenever the display stays in a state that polls it.
NextExit == Enter \/ FailWait \/ CalSample \/ CalEnd \/ RunLoop \/ ExitPress
SpecExit ==
    Init /\ [][NextExit]_vars /\ WF_vars(CalSample) /\ WF_vars(CalEnd) /\ WF_vars(ExitPress)

\* C27: from every state of a session (calibrating, running, waiting after a
\* failed init) the display returns to the menu once KEY2 is pressed: no
\* state holds it for ever.
C27_ExitEndsSession == (pc # "menu") ~> (pc = "menu")


\* The register accesses of the bus traffic of a call.
Accesses(bus) == {i \in 1..Len(bus) : bus[i].kind \in {"write", "read", "burst"}}

\* C28: whatever driver calls came before, every register read or write of a
\* call is issued while the bank the device has selected is the bank of the
\* register, and the cached bank is the device's bank when the call returns.
C28_AccessesInRegisterBank ==
    /\ \A i \in Accesses(drv.bus) : drv.bus[i].have = drv.bus[i].want
    /\ drv_out.calls > 0 => drv.current_bank = drv.dev_bank

\* A second icm20948_init has reset the device while the cache held bank 0 from
\* the calls before, and the magnetometer and the sensors were accessed in
\* banks 3 and 0.
C28_Witness ==
    /\ drv_out.calls = MaxCalls /\ drv_out.op = "init" /\ drv_out.ok
    /\ \E i \in Accesses(drv.bus) :
          drv.bus[i].reg = ICM20948_PWR_MGMT_1.addr /\ drv.bus[i].val >= 128
    /\ \E i \in SelectCalls(drv.bus) : drv.bus[i].have # BANK_UNINIT


\* A line has room in the line buffer with its terminating NUL.
Fits(l) == Len(l) <= BUFFER_SIZE - 1

\* C29: a line too long for the buffer is discarded whole, neither its head
\* nor its tail is parsed, and the lines after it are parsed intact: once
\* everything written has been read, the lines handed to the parsers are
\* exactly the written lines that fit, in their order.
C29_OverlongLineDiscardedWhole ==
    rx.pending = <<>> => rx.parsed = SelectSeq(rx.sent, Fits)


\* C30: after menu_init and any presses every index the menu reads a table
\* with is inside that table: selection_index is -1 or an index of the items
\* table, and every item drawn has an entry in the positions table in use.
C30_MenuIndicesInBounds ==
    pico_menu.inited
        => /\ pico_menu.selection_index = -1
              \/ pico_menu.selection_index \in 0..(pico_menu.item_count - 1)
           /\ pico_menu.item_count <= pico_menu.items
           /\ \A i \in 1..Len(pico_menu.drawn) :
                 pico_menu.drawn[i].index \in 0..(Len(pico_menu.positions) - 1)
           /\ \A i \in 1..Len(pico_menu.executed) :
                 pico_menu.executed[i] \in 0..(pico_menu.items - 1)

=============================================================================
